---------------------------- MODULE Spec2Model ----------------------------
(***************************************************************************)
(* VimGolf evaluation harness: the scorer (evaluate_solution and its       *)
(* worker _run_nvim_evaluation driving one RawNvimEditor), the orchestrator *)
(* (solve_problem / solve_all_problems), the summary main prints over the   *)
(* results (print_summary), the pure helpers they call, and the VimAgent    *)
(* around a RawNvimEditor session.                                          *)
(*                                                                          *)
(* Text is a sequence of one-character strings; a line sequence is a        *)
(* sequence of such texts.  The editing engine (nvim) and the LLM are       *)
(* external: every call into them answers, raises or never answers.        *)
(***************************************************************************)
EXTENDS Integers, Sequences, FiniteSets, TLC

(***************************************************************************)
(* Bounds of the model.                                                    *)
(***************************************************************************)
\* number of problems handed to the orchestrator / evaluated concurrently
NProb == 2
\* threads of the executor the evaluations are submitted to
MaxWorkers == 1
\* longest line sequence the comparison and the context window are checked on
MaxLines == 3
\* execute calls made on one agent
MaxCmds == 2
\* largest lines_before / lines_after handed to get_context_window
MaxWindow == 1
\* sessions open side by side when close() is called
MaxSessions == 2
\* close() calls made on one session
MaxCloses == 2
\* pieces a text handed to count_keystrokes or to _looks_like_vim_command is made of
MaxKeys == 3
\* parts a response text handed to extract_solution_from_response is made of
MaxParts == 3

Prob == 1..NProb

(***************************************************************************)
(* Characters and the str helpers of the source.                           *)
(***************************************************************************)
\* the characters str.strip() removes
Whitespace == {" ", "\t", "\n", "\r"}

RECURSIVE LStrip(_)
LStrip(s) == IF s # <<>> /\ Head(s) \in Whitespace THEN LStrip(Tail(s)) ELSE s

RECURSIVE RStrip(_)
RStrip(s) ==
    IF s # <<>> /\ s[Len(s)] \in Whitespace
    THEN RStrip(SubSeq(s, 1, Len(s) - 1))
    ELSE s

\* a strip that leaves the trailing white space (str.lstrip)
Strip_LeadingOnly(s) == LStrip(s)

\* str.strip()
Strip(s) == RStrip(LStrip(s))

\* str.split('\n'): the pieces between line feeds, at least one piece
RECURSIVE SplitFrom(_, _, _)
SplitFrom(s, k, cur) ==
    IF k > Len(s) THEN <<cur>>
    ELSE IF s[k] = "\n" THEN <<cur>> \o SplitFrom(s, k + 1, <<>>)
    ELSE SplitFrom(s, k + 1, Append(cur, s[k]))

SplitLines(s) == SplitFrom(s, 1, <<>>)

(***************************************************************************)
(* The comparison of _run_nvim_evaluation (lines 346-361).                  *)
(***************************************************************************)
\* [line for line in lines if line.strip()]
RECURSIVE CleanLines(_)
CleanLines(lines) ==
    IF lines = <<>> THEN <<>>
    ELSE IF Strip(Head(lines)) # <<>>
         THEN <<Head(lines)>> \o CleanLines(Tail(lines))
         ELSE CleanLines(Tail(lines))

\* while lines and lines[-1] == '': lines.pop()
RECURSIVE PopTrailingEmpty(_)
PopTrailingEmpty(lines) ==
    IF lines # <<>> /\ lines[Len(lines)] = <<>>
    THEN PopTrailingEmpty(SubSeq(lines, 1, Len(lines) - 1))
    ELSE lines

exact_match(result_lines, expected_lines) ==
    PopTrailingEmpty(result_lines) = PopTrailingEmpty(expected_lines)

\* the content match with only the result lines cleaned
content_match_one_side(result_lines, expected_lines) ==
    CleanLines(result_lines) = expected_lines

content_match(result_lines, expected_lines) ==
    CleanLines(result_lines) = CleanLines(expected_lines)

\* return 1 if (exact_match or content_match) else 0
CompareScore(result_lines, expected_lines) ==
    IF exact_match(result_lines, expected_lines)
       \/ content_match(result_lines, expected_lines)
    THEN 1 ELSE 0


(***************************************************************************)
(* Character classes and case folding used by the regular expressions.     *)
(***************************************************************************)
UpperCase == << "A", "B", "C", "D", "E", "F", "G", "H", "I", "J", "K", "L", "M",
                "N", "O", "P", "Q", "R", "S", "T", "U", "V", "W", "X", "Y", "Z" >>
LowerCase == << "a", "b", "c", "d", "e", "f", "g", "h", "i", "j", "k", "l", "m",
                "n", "o", "p", "q", "r", "s", "t", "u", "v", "w", "x", "y", "z" >>
Uppers == { UpperCase[k] : k \in 1..26 }
Lowers == { LowerCase[k] : k \in 1..26 }
Letters == Uppers \cup Lowers
\* stands for the backtick character, which a TLA+ string cannot hold
BackTick == "BACKTICK"

Digits == { "0", "1", "2", "3", "4", "5", "6", "7", "8", "9" }

\* str.lower() of one character
Lower(c) == IF c \in Uppers THEN LowerCase[CHOOSE k \in 1..26 : UpperCase[k] = c] ELSE c
LowerText(s) == [k \in 1..Len(s) |-> Lower(s[k])]

\* s[k:].startswith(prefix), k 1-based
StartsWithAt(s, k, prefix) ==
    /\ k + Len(prefix) - 1 <= Len(s)
    /\ \A j \in 1..Len(prefix) : s[k + j - 1] = prefix[j]

StartsWith(s, prefix) == StartsWithAt(s, 1, prefix)

\* first position >= k whose character is in set, Len(s) + 1 when there is none
RECURSIVE FirstIn(_, _, _)
FirstIn(s, k, set) ==
    IF k > Len(s) THEN Len(s) + 1
    ELSE IF s[k] \in set THEN k
    ELSE FirstIn(s, k + 1, set)

(***************************************************************************)
(* count_keystrokes (lines 230-286).                                       *)
(***************************************************************************)
\* The names between '<' and '>' that special_key_patterns[p] matches, under
\* re.IGNORECASE; the name is given lower-cased.
KeyNames ==
    << { <<"c","r">>, <<"e","n","t","e","r">>, <<"r","e","t","u","r","n">> },
       { <<"e","s","c">>, <<"e","s","c","a","p","e">> },
       { <<"t","a","b">>, <<"s","-","t","a","b">> },
       { <<"b","s">>, <<"b","a","c","k","s","p","a","c","e">> },
       { <<"d","e","l">>, <<"d","e","l","e","t","e">> },
       { <<"u","p">>, <<"d","o","w","n">>, <<"l","e","f","t">>, <<"r","i","g","h","t">> },
       {}, {}, {}, {},
       { <<"h","o","m","e">>, <<"e","n","d">> },
       { <<"p","a","g","e","u","p">>, <<"p","a","g","e","d","o","w","n">> },
       { <<"i","n","s","e","r","t">> } >>

NumPatterns == Len(KeyNames)

\* whether special_key_patterns[p] matches '<' + name + '>' (name lower-cased)
PatternMatchesName(p, name) ==
    \/ name \in KeyNames[p]
    \/ p = 7 /\ Len(name) = 3 /\ name[1] = "c" /\ name[2] = "-"
             /\ name[3] \in Lowers \cup Digits
    \/ p = 8 /\ Len(name) = 3 /\ name[1] = "s" /\ name[2] = "-" /\ name[3] \in Lowers
    \/ p = 9 /\ Len(name) = 3 /\ name[1] = "a" /\ name[2] = "-" /\ name[3] \in Lowers
    \/ p = 10 /\ Len(name) >= 2 /\ name[1] = "f"
              /\ \A j \in 2..Len(name) : name[j] \in Digits

\* position of the '>' closing a match of pattern p that starts at k, 0 if none.
\* No pattern matches '<' or '>' between its brackets, so the match closes at
\* the first '>' after k.
MatchEnd(p, s, k) ==
    IF k > Len(s) \/ s[k] # "<" THEN 0
    ELSE LET m == FirstIn(s, k + 1, {">"})
         IN  IF m <= Len(s) /\ PatternMatchesName(p, LowerText(SubSeq(s, k + 1, m - 1)))
             THEN m ELSE 0

\* len(re.findall(pattern, s)): leftmost non-overlapping matches from k on
RECURSIVE CountMatches(_, _, _)
CountMatches(p, s, k) ==
    IF k > Len(s) THEN 0
    ELSE IF MatchEnd(p, s, k) # 0 THEN 1 + CountMatches(p, s, MatchEnd(p, s, k) + 1)
    ELSE CountMatches(p, s, k + 1)

\* re.sub(pattern, '', s)
RECURSIVE RemoveMatches(_, _, _)
RemoveMatches(p, s, k) ==
    IF k > Len(s) THEN <<>>
    ELSE IF MatchEnd(p, s, k) # 0 THEN RemoveMatches(p, s, MatchEnd(p, s, k) + 1)
    ELSE <<s[k]>> \o RemoveMatches(p, s, k + 1)

\* the loop over special_key_patterns, then len(temp_sequence)
RECURSIVE CountFrom(_, _)
CountFrom(p, temp_sequence) ==
    IF p > NumPatterns THEN Len(temp_sequence)
    ELSE CountMatches(p, temp_sequence, 1)
         + CountFrom(p + 1, RemoveMatches(p, temp_sequence, 1))

\* temp_sequence once the patterns from p on have been removed
RECURSIVE RemainingFrom(_, _)
RemainingFrom(p, temp_sequence) ==
    IF p > NumPatterns THEN temp_sequence
    ELSE RemainingFrom(p + 1, RemoveMatches(p, temp_sequence, 1))

\* the count without the characters that remain after the loop
count_keystrokes_matches_only(keystroke_sequence) ==
    IF keystroke_sequence = <<>> THEN 0
    ELSE CountFrom(1, keystroke_sequence) - Len(RemainingFrom(1, keystroke_sequence))

\* the count without the loop over the patterns
count_keystrokes_length(keystroke_sequence) == Len(keystroke_sequence)

count_keystrokes(keystroke_sequence) ==
    IF keystroke_sequence = <<>> THEN 0 ELSE CountFrom(1, keystroke_sequence)

(***************************************************************************)
(* _looks_like_vim_command (lines 206-228).                                 *)
(***************************************************************************)
\* the lead-ins of descriptive text
ProsePhrases ==
    { <<"t","h","e"," ","v","i","m"," ","k","e","y","s","t","r","o","k","e","s"," ","a","r","e",":">>,
      <<"i"," ","w","o","u","l","d"," ","u","s","e">>,
      <<"h","e","r","e","'","s">>,
      <<"t","h","i","s"," ","w","i","l","l">>,
      <<"e","x","p","l","a","n","a","t","i","o","n",":">>,
      <<"k","e","y","s","t","r","o","k","e","s",":">>,
      <<"s","t","e","p">>,
      <<"f","i","r","s","t">>,
      <<"t","h","e","n">>,
      <<"n","e","x","t">> }

\* r'<[A-Z][a-z]*>' matches at position k
SpecialKeyTagAt(text, k) ==
    /\ text[k] = "<"
    /\ k + 2 <= Len(text)
    /\ text[k + 1] \in Uppers
    /\ LET m == FirstIn(text, k + 2, {c \in {text[j] : j \in 1..Len(text)} : c \notin Lowers})
       IN  m <= Len(text) /\ text[m] = ">"

\* r'^[0-9]*[a-zA-Z]'
NormalCommandShape(text) ==
    LET m == FirstIn(text, 1, {c \in {text[j] : j \in 1..Len(text)} : c \notin Digits})
    IN  m <= Len(text) /\ text[m] \in Letters

_looks_like_vim_command(text) ==
    IF text = <<>> THEN FALSE
    ELSE IF \E phrase \in ProsePhrases : StartsWith(LowerText(text), phrase) THEN FALSE
    ELSE \/ text[1] = ":"
         \/ NormalCommandShape(text)
         \/ \E k \in 1..Len(text) : SpecialKeyTagAt(text, k)
         \/ \E k \in 1..Len(text) : text[k] \in {"i", "j", "a", "o", "I", "O"}
         \/ \E k \in 1..Len(text) : text[k] \in {"/", "?"}
         \/ \E k \in 1..Len(text) : text[k] \in {"'", "\"", BackTick}

(***************************************************************************)
(* _clean_backticks (lines 199-204).                                        *)
(***************************************************************************)
_clean_backticks(text) ==
    LET t == Strip(text)
    IN  IF t # <<>> /\ t[1] = BackTick /\ t[Len(t)] = BackTick
        THEN Strip(SubSeq(t, 2, Len(t) - 1))
        ELSE t

(***************************************************************************)
(* extract_solution_from_response (lines 156-197).  Each rule yields       *)
(* [found |-> whether the regular expression matched, group |-> group(1)]. *)
(***************************************************************************)
NoMatch == [found |-> FALSE, group |-> <<>>]
Match(g) == [found |-> TRUE, group |-> g]

SolutionLabel == <<"S","o","l","u","t","i","o","n",":">>

\* text[j .. end of the line holding j]
RestOfLine(text, j) == SubSeq(text, j, FirstIn(text, j, {"\n"}) - 1)

\* largest j in lo..hi with text[j] # '\n', 0 when there is none
RECURSIVE LastNonNewline(_, _, _)
LastNonNewline(text, lo, hi) ==
    IF hi < lo THEN 0
    ELSE IF text[hi] # "\n" THEN hi
    ELSE LastNonNewline(text, lo, hi - 1)

\* r'Solution:\s*([^\n]+)' matched at k: \s* is greedy and gives characters
\* back when nothing but white space follows the label
SolutionMatchAt(text, k) ==
    IF ~StartsWithAt(text, k, SolutionLabel) THEN NoMatch
    ELSE LET e == k + Len(SolutionLabel)
             f == FirstIn(text, e, {c \in {text[j] : j \in 1..Len(text)} : c \notin Whitespace})
         IN  IF f <= Len(text) THEN Match(RestOfLine(text, f))
             ELSE LET j == LastNonNewline(text, e, Len(text))
                  IN  IF j = 0 THEN NoMatch ELSE Match(RestOfLine(text, j))

\* re.search: the match at the leftmost position
RECURSIVE SolutionSearch(_, _)
SolutionSearch(text, k) ==
    IF k > Len(text) THEN NoMatch
    ELSE IF SolutionMatchAt(text, k).found THEN SolutionMatchAt(text, k)
    ELSE SolutionSearch(text, k + 1)

Fence == <<BackTick, BackTick, BackTick>>
FenceMarkers == { Fence, Fence \o <<"v","i","m">>, Fence \o <<"v","i","m","l">> }

\* the fenced-block expression of line 171 (three backticks, an optional vim or
\* viml tag, a line feed, the interior without backticks, a line feed, three
\* backticks) matched at k
CodeBlockMatchAt(text, k) ==
    LET open == IF StartsWithAt(text, k, Fence \o <<"v","i","m","\n">>) THEN k + 7
                ELSE IF StartsWithAt(text, k, Fence \o <<"v","i","m","l","\n">>) THEN k + 8
                ELSE IF StartsWithAt(text, k, Fence \o <<"\n">>) THEN k + 4
                ELSE 0
        q == FirstIn(text, open, {BackTick})
    IN  IF open = 0 THEN NoMatch
        ELSE IF /\ q <= Len(text)
                /\ q - 2 >= open
                /\ text[q - 1] = "\n"
                /\ StartsWithAt(text, q, Fence)
             THEN Match(SubSeq(text, open, q - 2))
             ELSE NoMatch

RECURSIVE CodeBlockSearch(_, _)
CodeBlockSearch(text, k) ==
    IF k > Len(text) THEN NoMatch
    ELSE IF CodeBlockMatchAt(text, k).found THEN CodeBlockMatchAt(text, k)
    ELSE CodeBlockSearch(text, k + 1)

\* the inline expression of line 179 (a backtick, one or more characters that
\* are neither backtick nor line feed, a backtick) matched at k
BacktickMatchAt(text, k) ==
    IF text[k] # BackTick THEN NoMatch
    ELSE LET q == FirstIn(text, k + 1, {BackTick, "\n"})
         IN  IF q <= Len(text) /\ text[q] = BackTick /\ q > k + 1
             THEN Match(SubSeq(text, k + 1, q - 1))
             ELSE NoMatch

RECURSIVE BacktickSearch(_, _)
BacktickSearch(text, k) ==
    IF k > Len(text) THEN NoMatch
    ELSE IF BacktickMatchAt(text, k).found THEN BacktickMatchAt(text, k)
    ELSE BacktickSearch(text, k + 1)

\* rule 1 (lines 159-168): the accepted candidate, <<>> when the rule falls through
SolutionRule(text) ==
    LET m == SolutionSearch(text, 1)
        stripped == Strip(m.group)
        cleaned == _clean_backticks(stripped)
    IN  IF m.found /\ stripped \notin FenceMarkers
           /\ cleaned # <<>> /\ _looks_like_vim_command(cleaned)
        THEN cleaned ELSE <<>>

\* rule 2 (lines 171-175)
CodeBlockRule(text) ==
    LET m == CodeBlockSearch(text, 1)
        candidate == Strip(m.group)
    IN  IF m.found /\ candidate # <<>> /\ _looks_like_vim_command(candidate)
        THEN candidate ELSE <<>>

\* rule 3 (lines 179-183)
BacktickRule(text) ==
    LET m == BacktickSearch(text, 1)
        candidate == Strip(m.group)
    IN  IF m.found /\ candidate # <<>> /\ _looks_like_vim_command(candidate)
        THEN candidate ELSE <<>>

\* rule 4 without the predicate: the first line that is neither empty nor a fence
RECURSIVE LineRule_unchecked(_)
LineRule_unchecked(lines) ==
    IF lines = <<>> THEN <<>>
    ELSE LET line == Strip(Head(lines))
         IN  IF line = <<>> \/ StartsWith(line, Fence) THEN LineRule_unchecked(Tail(lines))
             ELSE _clean_backticks(line)

\* rule 4 (lines 186-195): the first line that passes, <<>> when none does
RECURSIVE LineRule(_)
LineRule(lines) ==
    IF lines = <<>> THEN <<>>
    ELSE LET line == Strip(Head(lines))
             cleaned == _clean_backticks(line)
         IN  IF line = <<>> \/ StartsWith(line, Fence) THEN LineRule(Tail(lines))
             ELSE IF cleaned # <<>> /\ _looks_like_vim_command(cleaned) THEN cleaned
             ELSE LineRule(Tail(lines))

\* the rules with the fenced block tried before the label
extract_fence_first(response_text) ==
    IF CodeBlockRule(response_text) # <<>> THEN CodeBlockRule(response_text)
    ELSE IF SolutionRule(response_text) # <<>> THEN SolutionRule(response_text)
    ELSE IF BacktickRule(response_text) # <<>> THEN BacktickRule(response_text)
    ELSE LineRule(SplitLines(response_text))

extract_solution_from_response(response_text) ==
    IF SolutionRule(response_text) # <<>> THEN SolutionRule(response_text)
    ELSE IF CodeBlockRule(response_text) # <<>> THEN CodeBlockRule(response_text)
    ELSE IF BacktickRule(response_text) # <<>> THEN BacktickRule(response_text)
    ELSE LineRule(SplitLines(response_text))

(***************************************************************************)
(* Problems (VimGolfProblem): id, start_text, end_text.                     *)
(***************************************************************************)
ProblemTable ==
    << [start_text |-> <<"a">>,            end_text |-> <<"b">>],
       [start_text |-> <<"a", "\n", "b">>, end_text |-> <<"a", "\n", "b">>],
       [start_text |-> <<"b">>,            end_text |-> <<"a", "\n", "\n", "b">>] >>

problems(i) ==
    LET p == ProblemTable[((i - 1) % Len(ProblemTable)) + 1]
    IN  [id |-> i, start_text |-> p.start_text, end_text |-> p.end_text]

\* expected_lines = problem.end_text.split('\n')
ExpectedLines(i) == SplitLines(problems(i).end_text)

\* what the buffer of the engine may hold when it is read
Contents ==
    { << <<"b">> >>,
      << <<"a">>, <<"b">> >>,
      << <<"a">>, <<" ">>, <<"b">> >> }

\* keystroke sequences handed to evaluate_solution by a direct caller
Candidates == { <<>>, <<" ">>, <<"d", "d">> }

(***************************************************************************)
(* Return values: a value, a raised exception, or nothing yet.             *)
(***************************************************************************)
NoRet == [kind |-> "none", value |-> 0]
Val(v) == [kind |-> "value", value |-> v]
Exc == [kind |-> "exc", value |-> 0]

NoContent == << <<"?">> >>
NoResult == [none |-> TRUE]
NoReport == [none |-> TRUE]

VARIABLES
    phase,      \* "idle", "direct" (evaluate_solution called directly), "run_all", "returned"
    pc,         \* per problem: position of the caller coroutine
    caller,     \* per problem: "none", "direct", "solve_problem"
    resp,       \* per problem: the completion text received
    cand,       \* per problem: keystroke_sequence
    fut,        \* per problem: the awaited executor future: "none", "pending", "returned", "timedout"
    workq,      \* work queue of the executor (FIFO)
    wpc,        \* per problem: position of the worker thread in _run_nvim_evaluation
    pending,    \* per problem: how the with-body is being left (value or exception)
    wres,       \* per problem: what _run_nvim_evaluation returned
    proc,       \* per problem: the engine process: "none", "running", "terminated"
    tmpdir,     \* per problem: the directory of the session's socket (0: none)
    opened,     \* per problem: RawNvimEditor.__init__ completed
    content,    \* per problem: result_lines read from the buffer
    score,      \* per problem: what evaluate_solution returned
    oplog,      \* per problem: the session calls of its evaluation with their outcomes,
                \* in order, kept for the evaluations under observation
    result,     \* per problem: the dict solve_problem returned
    doneOrder,  \* problems in the order their solve_problem task completed
    results,    \* the list solve_all_problems returned
    report,     \* the figures print_summary printed (NoReport before the call)
    cmp,        \* one comparison: result_lines, expected_lines, score, done
    agent,      \* the VimAgent object with its editor (NoAgent before construction)
    ret,        \* the last call on the agent and what it returned or raised
    hist,       \* bookkeeping of the calls made on the agent so far
    ctx,        \* one context window: content, cursor, arguments, window
    cnt,        \* one count_keystrokes call: keystroke_sequence, count, done
    ext,        \* one extract_solution_from_response call: response_text, solution, done
    pred,       \* one _looks_like_vim_command call: text, looks, done
    sess        \* per session: the RawNvimEditor, the VimAgent around it, the close() calls

agentVars == << agent, ret, hist, ctx >>

unitVars == << cnt, ext, pred, sess >>

vars == << phase, pc, caller, resp, cand, fut, workq, wpc, pending, wres, proc,
           tmpdir, opened, content, score, oplog, result, doneOrder, results, cmp, report, agentVars,
           unitVars >>

evalVars == << fut, workq, wpc, pending, wres, proc, tmpdir, opened, content, score, oplog >>

CmpIdle == [result_lines |-> <<>>, expected_lines |-> <<>>, score |-> 0, done |-> FALSE]

\* the log of an evaluation that is not observed, and of one that is
LogOff == [on |-> FALSE, ops |-> <<>>]
LogOn == [on |-> TRUE, ops |-> <<>>]

IdleProgram ==
    /\ phase = "idle"
    /\ pc = [i \in Prob |-> "none"]
    /\ caller = [i \in Prob |-> "none"]
    /\ resp = [i \in Prob |-> <<>>]
    /\ cand = [i \in Prob |-> <<>>]
    /\ fut = [i \in Prob |-> "none"]
    /\ workq = <<>>
    /\ wpc = [i \in Prob |-> "none"]
    /\ pending = [i \in Prob |-> NoRet]
    /\ wres = [i \in Prob |-> NoRet]
    /\ proc = [i \in Prob |-> "none"]
    /\ tmpdir = [i \in Prob |-> 0]
    /\ opened = [i \in Prob |-> FALSE]
    /\ content = [i \in Prob |-> NoContent]
    /\ score = [i \in Prob |-> NoRet]
    /\ result = [i \in Prob |-> NoResult]
    /\ doneOrder = <<>>
    /\ results = <<>>
    /\ report = NoReport

Idle == IdleProgram /\ oplog = [i \in Prob |-> LogOff]

mainVars == << phase, pc, caller, resp, cand, evalVars, result, doneOrder, results, cmp,
              report >>

\* no VimAgent has been constructed
NoAgent == [none |-> TRUE]

\* no call has been made on the agent
NoCall == [op |-> "none", args |-> <<>>, session_raised |-> FALSE, kind |-> "none", value |-> 0]

HistIdle == [executes |-> 0, close_called |-> FALSE, reopened |-> FALSE,
             initial_content |-> [none |-> TRUE, lines |-> <<>>]]

CtxIdle == [buffer_content |-> << <<>> >>, cursor_position |-> <<1, 0>>,
            lines_before |-> 0, lines_after |-> 0, window |-> 0, done |-> FALSE]

AgentIdle ==
    /\ agent = NoAgent
    /\ ret = NoCall
    /\ hist = HistIdle
    /\ ctx = CtxIdle

\* no call of a helper has been made, no session has been opened
CntIdle == [keystroke_sequence |-> <<>>, count |-> 0, done |-> FALSE]

ExtIdle == [response_text |-> <<>>, solution |-> <<>>, done |-> FALSE]

PredIdle == [text |-> <<>>, looks |-> FALSE, done |-> FALSE]

Sessions == 1..MaxSessions

NoSession == [none |-> TRUE]

UnitIdle ==
    /\ cnt = CntIdle
    /\ ext = ExtIdle
    /\ pred = PredIdle
    /\ sess = [s \in Sessions |-> NoSession]

Init == Idle /\ cmp = CmpIdle /\ AgentIdle /\ UnitIdle


(***************************************************************************)
(* evaluate_solution (lines 288-315).                                      *)
(***************************************************************************)
\* the guard without its strip() test
IsBlankCandidate_NoStrip(c) == c = <<>>

\* not keystroke_sequence or not keystroke_sequence.strip()
IsBlankCandidate(c) == c = <<>> \/ Strip(c) = <<>>

\* the handlers re-raising instead of returning 0
evaluate_reraise(e) == Exc

\* except asyncio.TimeoutError / except Exception: return 0
evaluate_except(e) == Val(0)

\* except Exception: return 0 of _run_nvim_evaluation (lines 363-364)
run_nvim_except(e) == Val(0)

\* the worker threads that hold a thread of the executor
Busy == { j \in Prob : wpc[j] \in {"open", "config", "inject", "esc", "read", "close", "blocked"} }

(***************************************************************************)
(* solve_problem (lines 366-430): the dict it returns.                     *)
(***************************************************************************)
\* a result that counts as successful only when a candidate was extracted
SuccessResult_NeedsCandidate(i, response_text, keystroke_sequence, eval_score) ==
    [ problem_id |-> problems(i).id,
      solution |-> response_text,
      keystroke_sequence |-> keystroke_sequence,
      keystroke_count |-> IF keystroke_sequence # <<>>
                          THEN count_keystrokes(keystroke_sequence) ELSE 0,
      eval_score |-> eval_score,
      success |-> keystroke_sequence # <<>> ]

\* a result that reports the keystrokes of correct solutions only
SuccessResult_CountIfCorrect(i, response_text, keystroke_sequence, eval_score) ==
    [ problem_id |-> problems(i).id,
      solution |-> response_text,
      keystroke_sequence |-> keystroke_sequence,
      keystroke_count |-> IF eval_score = 1
                          THEN count_keystrokes(keystroke_sequence) ELSE 0,
      eval_score |-> eval_score,
      success |-> TRUE ]

\* lines 406-417
SuccessResult(i, response_text, keystroke_sequence, eval_score) ==
    [ problem_id |-> problems(i).id,
      solution |-> response_text,
      keystroke_sequence |-> keystroke_sequence,
      keystroke_count |-> IF keystroke_sequence # <<>>
                          THEN count_keystrokes(keystroke_sequence) ELSE 0,
      eval_score |-> eval_score,
      success |-> TRUE ]

\* lines 419-430
ErrorResult(i, e) ==
    [ problem_id |-> problems(i).id,
      error |-> e,
      eval_score |-> 0,
      keystroke_count |-> 0,
      success |-> FALSE ]

\* evaluate_solution hands s back to the coroutine that awaited it; solve_problem
\* then builds its dict and its task completes
ReturnToCaller(i, s) ==
    /\ score' = [score EXCEPT ![i] = s]
    /\ pc' = [pc EXCEPT ![i] = "done"]
    /\ IF caller[i] = "solve_problem"
       THEN /\ result' = [result EXCEPT ![i] =
                            IF s.kind = "value"
                            THEN SuccessResult(i, resp[i], cand[i], s.value)
                            ELSE ErrorResult(i, "exception")]
            /\ doneOrder' = Append(doneOrder, i)
       ELSE UNCHANGED << result, doneOrder >>

\* a direct call of evaluate_solution(problems(i), c)
DirectEvaluate(i, c) ==
    /\ pc[i] = "none"
    /\ phase' = "direct"
    /\ caller' = [caller EXCEPT ![i] = "direct"]
    /\ cand' = [cand EXCEPT ![i] = c]
    /\ IF IsBlankCandidate(c)
       THEN /\ score' = [score EXCEPT ![i] = Val(0)]
            /\ pc' = [pc EXCEPT ![i] = "done"]
            /\ UNCHANGED << fut, workq, wpc >>
       ELSE /\ fut' = [fut EXCEPT ![i] = "pending"]
            /\ workq' = Append(workq, i)
            /\ wpc' = [wpc EXCEPT ![i] = "queued"]
            /\ pc' = [pc EXCEPT ![i] = "awaiting_eval"]
            /\ UNCHANGED score
    /\ UNCHANGED << oplog, resp, pending, wres, proc, tmpdir, opened, content, result, doneOrder,
                    results, cmp, report, agentVars, unitVars >>

\* the worker finished before the timeout: wait_for hands its result back
EvalComplete(i) ==
    /\ fut[i] = "pending"
    /\ wpc[i] = "finished"
    /\ fut' = [fut EXCEPT ![i] = "returned"]
    /\ ReturnToCaller(i, IF wres[i].kind = "exc" THEN evaluate_except(wres[i]) ELSE wres[i])
    /\ UNCHANGED << oplog, phase, caller, resp, cand, workq, wpc, pending, wres, proc, tmpdir, opened,
                    content, results, cmp, report, agentVars, unitVars >>

\* a timeout that is only noticed once the worker thread has come back
EvalTimeout_AfterWorker(i) ==
    /\ fut[i] = "pending"
    /\ wpc[i] \in {"finished", "cancelled"}
    /\ fut' = [fut EXCEPT ![i] = "timedout"]
    /\ ReturnToCaller(i, evaluate_except(Exc))
    /\ UNCHANGED << oplog, phase, caller, resp, cand, workq, wpc, pending, wres, proc, tmpdir, opened,
                    content, results, cmp, report, agentVars, unitVars >>

\* wait_for gives up after 5 seconds: the future is cancelled, the worker thread
\* is not; a work item still in the queue is skipped when a thread takes it
EvalTimeout(i) ==
    /\ fut[i] = "pending"
    /\ fut' = [fut EXCEPT ![i] = "timedout"]
    /\ ReturnToCaller(i, evaluate_except(Exc))
    /\ UNCHANGED << oplog, phase, caller, resp, cand, workq, wpc, pending, wres, proc, tmpdir, opened,
                    content, results, cmp, report, agentVars, unitVars >>

(***************************************************************************)
(* The executor thread and _run_nvim_evaluation (lines 317-364) with       *)
(* RawNvimEditor (raw_editor.py lines 24-63).                               *)
(***************************************************************************)
\* a thread of the executor takes the next work item
WorkerStart ==
    /\ workq # <<>>
    /\ Cardinality(Busy) < MaxWorkers
    /\ LET i == Head(workq)
       IN  wpc' = [wpc EXCEPT ![i] = IF fut[i] = "timedout" THEN "cancelled" ELSE "open"]
    /\ workq' = Tail(workq)
    /\ UNCHANGED << oplog, phase, pc, caller, resp, cand, fut, pending, wres, proc, tmpdir, opened,
                    content, score, result, doneOrder, results, cmp, report, agentVars, unitVars >>

\* the directories tempfile.mkdtemp has created; none is ever removed
ExistingDirs == { tmpdir[j] : j \in Prob } \ {0}

\* the candidate names drawn for the directory of the session of problem i
\* (tempfile._RandomNameSequence): every name, in an order of its own
RandomNames(i) == [k \in 1..NProb |-> ((i + k - 2) % NProb) + 1]

\* every session under one fixed directory
mkdtemp_fixed(existing, names) == 1

\* tempfile.mkdtemp() (raw_editor.py line 26): the candidate names are tried in
\* turn and the first one that is not the name of an existing directory is
\* created
mkdtemp(existing, names) ==
    names[CHOOSE k \in 1..Len(names) :
            names[k] \notin existing /\ \A l \in 1..(k - 1) : names[l] \in existing]

\* one call on the session and how it ended
Call(op, outcome) == [op |-> op, outcome |-> outcome]

\* the calls join the log of an observed evaluation
Logged(i, calls) ==
    oplog' = [oplog EXCEPT ![i] =
                IF oplog[i].on THEN [on |-> TRUE, ops |-> oplog[i].ops \o calls] ELSE @]

\* RawNvimEditor.__init__: make the directory of the socket, spawn the engine
\* listening on it, attach, seed the buffer
Open(i) ==
    /\ wpc[i] = "open"
    /\ tmpdir' = [tmpdir EXCEPT ![i] = mkdtemp(ExistingDirs, RandomNames(i))]
    /\ \E o \in {"ok", "spawn_fails", "raises", "blocks"} :
        /\ proc' = [proc EXCEPT ![i] = IF o = "spawn_fails" THEN "none" ELSE "running"]
        /\ opened' = [opened EXCEPT ![i] = (o = "ok")]
        /\ wpc' = [wpc EXCEPT ![i] =
                     CASE o = "ok" -> "config"
                       [] o = "blocks" -> "blocked"
                       [] OTHER -> "finished"]
        /\ wres' = [wres EXCEPT ![i] =
                      IF o \in {"spawn_fails", "raises"} THEN run_nvim_except(Exc) ELSE @]
        /\ Logged(i, << Call("open", o) >>)
    /\ UNCHANGED << phase, pc, caller, resp, cand, fut, workq, pending, content, score,
                    result, doneOrder, results, cmp, report, agentVars, unitVars >>

\* the seven editor.nvim.command calls (lines 322-328)
Configure(i) ==
    /\ wpc[i] = "config"
    /\ \E o \in {"ok", "raises", "blocks"} :
        /\ wpc' = [wpc EXCEPT ![i] =
                     CASE o = "ok" -> "inject" [] o = "raises" -> "close" [] OTHER -> "blocked"]
        /\ pending' = [pending EXCEPT ![i] = IF o = "raises" THEN Exc ELSE @]
        /\ Logged(i, << Call("configure", o) >>)
    /\ UNCHANGED << phase, pc, caller, resp, cand, fut, workq, wres, proc, tmpdir, opened, content,
                    score, result, doneOrder, results, cmp, report, agentVars, unitVars >>

\* the exception of type_keys leaving the with-body instead of being swallowed
Inject_Reraises(i) ==
    /\ wpc[i] = "inject"
    /\ \E o \in {"ok", "raises", "blocks"} :
        /\ wpc' = [wpc EXCEPT ![i] =
                     CASE o = "ok" -> "esc" [] o = "raises" -> "close" [] OTHER -> "blocked"]
        /\ pending' = [pending EXCEPT ![i] = IF o = "raises" THEN Exc ELSE @]
        /\ Logged(i, << Call("inject", o) >>)
    /\ UNCHANGED << phase, pc, caller, resp, cand, fut, workq, wres, proc, tmpdir, opened,
                    content, score, result, doneOrder, results, cmp, report, agentVars, unitVars >>

\* editor.type_keys(keystroke_sequence), an exception is swallowed (lines 331-335)
Inject(i) ==
    /\ wpc[i] = "inject"
    /\ \E o \in {"ok", "raises", "blocks"} :
        /\ wpc' = [wpc EXCEPT ![i] = IF o = "blocks" THEN "blocked" ELSE "esc"]
        /\ Logged(i, << Call("inject", o) >>)
    /\ UNCHANGED << phase, pc, caller, resp, cand, fut, workq, pending, wres, proc, tmpdir, opened,
                    content, score, result, doneOrder, results, cmp, report, agentVars, unitVars >>

\* editor.type_keys("<Esc>"), an exception is swallowed (lines 338-341)
InjectEsc(i) ==
    /\ wpc[i] = "esc"
    /\ \E o \in {"ok", "raises", "blocks"} :
        /\ wpc' = [wpc EXCEPT ![i] = IF o = "blocks" THEN "blocked" ELSE "read"]
        /\ Logged(i, << Call("escape", o) >>)
    /\ UNCHANGED << phase, pc, caller, resp, cand, fut, workq, pending, wres, proc, tmpdir, opened,
                    content, score, result, doneOrder, results, cmp, report, agentVars, unitVars >>

\* editor.get_buffer_content() and the comparison (lines 344-361)
ReadAndCompare(i) ==
    /\ wpc[i] = "read"
    /\ \/ \E c \in Contents :
            /\ content' = [content EXCEPT ![i] = c]
            /\ pending' = [pending EXCEPT ![i] = Val(CompareScore(c, ExpectedLines(i)))]
            /\ wpc' = [wpc EXCEPT ![i] = "close"]
            /\ Logged(i, << Call("read", "ok"), Call("compare", "ok") >>)
       \/ /\ pending' = [pending EXCEPT ![i] = Exc]
          /\ wpc' = [wpc EXCEPT ![i] = "close"]
          /\ Logged(i, << Call("read", "raises") >>)
          /\ UNCHANGED content
       \/ /\ wpc' = [wpc EXCEPT ![i] = "blocked"]
          /\ Logged(i, << Call("read", "blocks") >>)
          /\ UNCHANGED << content, pending >>
    /\ UNCHANGED << phase, pc, caller, resp, cand, fut, workq, wres, proc, tmpdir, opened, score,
                    result, doneOrder, results, cmp, report, agentVars, unitVars >>

\* what _run_nvim_evaluation returns once __exit__ has run close():
\* the value of the with-body, or 0 for an exception of the body or of close()
run_nvim_return(body, close_raised) ==
    IF close_raised \/ body.kind = "exc" THEN run_nvim_except(Exc) ELSE body

\* __exit__ -> close() (raw_editor.py lines 53-63): quit (an exception is
\* swallowed), terminate, wait(timeout=5) which raises when the process has
\* not exited
Close(i) ==
    /\ wpc[i] = "close"
    /\ \E o \in {"ok", "wait_raises", "blocks"} :
        /\ proc' = [proc EXCEPT ![i] = IF o = "ok" THEN "terminated" ELSE @]
        /\ wpc' = [wpc EXCEPT ![i] = IF o = "blocks" THEN "blocked" ELSE "finished"]
        /\ wres' = [wres EXCEPT ![i] =
                      IF o = "blocks" THEN @
                      ELSE run_nvim_return(pending[i], o = "wait_raises")]
        /\ Logged(i, << Call("close", o) >>)
    /\ UNCHANGED << phase, pc, caller, resp, cand, fut, workq, pending, tmpdir, opened,
                    content, score, result, doneOrder, results, cmp, report, agentVars, unitVars >>


(***************************************************************************)
(* solve_all_problems (lines 432-474) and the solve_problem tasks.          *)
(***************************************************************************)
\* completions of the LLM: "Solution: dd" and "Step" (no command in it)
Responses ==
    { <<"S","o","l","u","t","i","o","n",":"," ","d","d">>,
      <<"S","t","e","p">> }

\* what the extractor returns for each completion, and what the counter returns
\* for each of these extractions (tabulated once)
ExtractionOf == [r \in Responses |-> extract_solution_from_response(r)]
KeystrokesOf == [c \in { ExtractionOf[r] : r \in Responses } |-> count_keystrokes(c)]

\* tasks = [self.solve_problem(problem) for problem in self.problems]
tasks == [k \in 1..NProb |-> k]

\* the results in the order the tasks completed
gather_as_completed(r, completed) == [k \in 1..NProb |-> r[completed[k]]]

\* results = await asyncio.gather(*tasks): the results in the order of tasks
gather(r, completed) == [k \in 1..NProb |-> r[tasks[k]]]

solve_all_problems ==
    /\ phase = "idle"
    /\ phase' = "run_all"
    /\ pc' = [i \in Prob |-> "created"]
    /\ caller' = [i \in Prob |-> "solve_problem"]
    /\ UNCHANGED << resp, cand, evalVars, result, doneOrder, results, cmp, report, agentVars, unitVars >>

\* the task runs up to its await of the completion (lines 368-384)
TaskStart(i) ==
    /\ phase = "run_all"
    /\ pc[i] = "created"
    /\ pc' = [pc EXCEPT ![i] = "awaiting_llm"]
    /\ UNCHANGED << phase, caller, resp, cand, evalVars, result, doneOrder, results, cmp, report, agentVars, unitVars >>

\* the exception of one task aborting every task that has not completed
SolveFails_AbortsAll(i) ==
    /\ pc[i] = "awaiting_llm"
    /\ result' = [j \in Prob |-> IF pc[j] # "done" THEN ErrorResult(j, "api_error")
                                 ELSE result[j]]
    /\ pc' = [j \in Prob |-> "done"]
    /\ doneOrder' = Append(doneOrder, i)
    /\ UNCHANGED << phase, caller, resp, cand, evalVars, results, cmp, report, agentVars, unitVars >>

\* the API call or the extraction raises: except Exception (lines 419-430)
SolveFails(i) ==
    /\ pc[i] = "awaiting_llm"
    /\ \E e \in {"api_error", "no_content"} :
        result' = [result EXCEPT ![i] = ErrorResult(i, e)]
    /\ pc' = [pc EXCEPT ![i] = "done"]
    /\ doneOrder' = Append(doneOrder, i)
    /\ UNCHANGED << phase, caller, resp, cand, evalVars, results, cmp, report, agentVars, unitVars >>

\* the completion arrives: extract, count, evaluate (lines 386-417)
LLMRespond(i) ==
    /\ pc[i] = "awaiting_llm"
    /\ \E r \in Responses :
        LET c == extract_solution_from_response(r)
        IN  /\ resp' = [resp EXCEPT ![i] = r]
            /\ cand' = [cand EXCEPT ![i] = c]
            /\ IF c = <<>>
               THEN /\ result' = [result EXCEPT ![i] = SuccessResult(i, r, c, 0)]
                    /\ pc' = [pc EXCEPT ![i] = "done"]
                    /\ doneOrder' = Append(doneOrder, i)
                    /\ UNCHANGED << fut, workq, wpc, score >>
               ELSE IF IsBlankCandidate(c)
               THEN /\ score' = [score EXCEPT ![i] = Val(0)]
                    /\ result' = [result EXCEPT ![i] = SuccessResult(i, r, c, 0)]
                    /\ pc' = [pc EXCEPT ![i] = "done"]
                    /\ doneOrder' = Append(doneOrder, i)
                    /\ UNCHANGED << fut, workq, wpc >>
               ELSE /\ fut' = [fut EXCEPT ![i] = "pending"]
                    /\ workq' = Append(workq, i)
                    /\ wpc' = [wpc EXCEPT ![i] = "queued"]
                    /\ pc' = [pc EXCEPT ![i] = "awaiting_eval"]
                    /\ UNCHANGED << score, result, doneOrder >>
    /\ UNCHANGED << oplog, phase, caller, pending, wres, proc, tmpdir, opened, content, results, cmp, report, agentVars, unitVars >>

\* every task is done: gather hands the list back
GatherReturn ==
    /\ phase = "run_all"
    /\ \A i \in Prob : pc[i] = "done"
    /\ results' = gather(result, doneOrder)
    /\ phase' = "returned"
    /\ UNCHANGED << pc, caller, resp, cand, evalVars, result, doneOrder, cmp, report, agentVars, unitVars >>

\* the denominator print_summary prints its counts and its success rate over
ProblemsShown == 10

\* sum(r.get("keystroke_count", 0) for r in rs)
RECURSIVE SumKeystrokes(_)
SumKeystrokes(rs) ==
    IF rs = <<>> THEN 0 ELSE Head(rs).keystroke_count + SumKeystrokes(Tail(rs))

\* the lists print_summary builds (lines 478-480)
Successful(rs) == SelectSeq(rs, LAMBDA r : r.success)
Failed(rs) == SelectSeq(rs, LAMBDA r : ~r.success)
CorrectSolutions(rs) == SelectSeq(rs, LAMBDA r : r.eval_score = 1)

\* print_summary (lines 476-503): the figures of the printed lines; a quotient
\* is kept as << numerator, denominator >>
print_summary(rs) ==
    LET successful == Successful(rs)
        failed == Failed(rs)
        correct_solutions == CorrectSolutions(rs)
        total_keystrokes == SumKeystrokes(successful)
    IN  [ successful |-> Len(successful),
          correct |-> Len(correct_solutions),
          failed |-> Len(failed),
          out_of |-> ProblemsShown,
          total_keystrokes |-> total_keystrokes,
          avg_keystrokes |-> IF Len(successful) > 0
                             THEN << total_keystrokes, Len(successful) >>
                             ELSE << 0, 1 >>,
          correct_keystrokes |-> SumKeystrokes(correct_solutions),
          success_rate |-> << Len(correct_solutions) * 100, ProblemsShown >> ]

\* main (lines 529-531): solver.print_summary(results) once solve_all_problems
\* has returned
PrintSummary ==
    /\ phase = "returned"
    /\ report = NoReport
    /\ report' = print_summary(results)
    /\ UNCHANGED << phase, pc, caller, resp, cand, evalVars, result, doneOrder, results, cmp,
                    agentVars, unitVars >>

\* the steps of an evaluation once evaluate_solution has submitted it
EvalSteps ==
    \/ \E i \in Prob : EvalComplete(i)
    \/ \E i \in Prob : EvalTimeout(i)
    \/ WorkerStart
    \/ \E i \in Prob : Open(i)
    \/ \E i \in Prob : Configure(i)
    \/ \E i \in Prob : Inject(i)
    \/ \E i \in Prob : InjectEsc(i)
    \/ \E i \in Prob : ReadAndCompare(i)
    \/ \E i \in Prob : Close(i)

\* a run of solve_all_problems
Next ==
    \/ solve_all_problems
    \/ \E i \in Prob : TaskStart(i)
    \/ \E i \in Prob : SolveFails(i)
    \/ \E i \in Prob : LLMRespond(i)
    \/ GatherReturn
    \/ EvalSteps

Spec == Init /\ [][Next]_vars

\* main (lines 520-537): a run of solve_all_problems, then its summary
MainNext == Next \/ PrintSummary

MainSpec == Init /\ [][MainNext]_vars

\* The event loop runs its ready callbacks and timers and the executor threads
\* keep running; an engine call that never answers has no step.
EvalFairness ==
    /\ WF_vars(WorkerStart)
    /\ \A i \in Prob :
        /\ WF_vars(EvalComplete(i))
        /\ WF_vars(EvalTimeout(i))
        /\ WF_vars(Open(i))
        /\ WF_vars(Configure(i))
        /\ WF_vars(Inject(i))
        /\ WF_vars(InjectEsc(i))
        /\ WF_vars(ReadAndCompare(i))
        /\ WF_vars(Close(i))

\* The API client answers or raises (it has its own timeout); nothing obliges
\* a caller to start a run.
Fairness ==
    /\ EvalFairness
    /\ WF_vars(GatherReturn)
    /\ \A i \in Prob :
        /\ WF_vars(TaskStart(i))
        /\ WF_vars(SolveFails(i) \/ LLMRespond(i))

FairSpec == Init /\ [][Next]_vars /\ Fairness

\* evaluate_solution called directly, concurrently for several problems
EvalNext ==
    \/ \E i \in Prob : \E c \in Candidates : DirectEvaluate(i, c)
    \/ EvalSteps

EvalSpec == Init /\ [][EvalNext]_vars

FairEvalSpec == Init /\ [][EvalNext]_vars /\ EvalFairness

\* the same calls of evaluate_solution, with the session calls of the
\* evaluation of the first problem kept in its log
ObservedInit ==
    /\ IdleProgram
    /\ oplog = [i \in Prob |-> IF i = 1 THEN LogOn ELSE LogOff]
    /\ cmp = CmpIdle
    /\ AgentIdle
    /\ UnitIdle

ObservedSpec == ObservedInit /\ [][EvalNext]_vars

\* only the timer of wait_for is assumed to run
TimerFairness == \A i \in Prob : WF_vars(EvalTimeout(i))

TimerFairEvalSpec == Init /\ [][EvalNext]_vars /\ TimerFairness

(***************************************************************************)
(* The comparison as a function of both line sequences.                    *)
(***************************************************************************)
CmpLines == { <<>>, <<" ">>, <<"a">>, <<"b">> }
LineSeqs == UNION { [1..n -> CmpLines] : n \in 1..MaxLines }

CompareInit ==
    /\ Idle
    /\ AgentIdle
    /\ UnitIdle
    /\ cmp \in [result_lines : LineSeqs, expected_lines : LineSeqs, score : {0}, done : {FALSE}]

CompareStep ==
    /\ ~cmp.done
    /\ cmp' = [cmp EXCEPT !.score = CompareScore(cmp.result_lines, cmp.expected_lines),
                          !.done = TRUE]
    /\ UNCHANGED << phase, pc, caller, resp, cand, evalVars, result, doneOrder, results,
                    report, agentVars, unitVars >>

CompareNext == CompareStep

CompareSpec == CompareInit /\ [][CompareNext]_vars

(***************************************************************************)
(* The editing engine behind RawNvimEditor (nvim, external): what the keys  *)
(* fed by the model do to its content, cursor and mode.                     *)
(***************************************************************************)
Max(a, b) == IF a >= b THEN a ELSE b
Min(a, b) == IF a <= b THEN a ELSE b

Esc == <<"<", "E", "s", "c", ">">>

\* nvim.api.replace_termcodes(keys, True, False, True): <Esc>, in any case,
\* becomes the escape key; every other character is a key of its own
RECURSIVE replace_termcodes(_)
replace_termcodes(keys) ==
    IF keys = <<>> THEN <<>>
    ELSE IF Len(keys) >= 5 /\ LowerText(SubSeq(keys, 1, 5)) = LowerText(Esc)
         THEN <<"ESC">> \o replace_termcodes(SubSeq(keys, 6, Len(keys)))
         ELSE <<Head(keys)>> \o replace_termcodes(Tail(keys))

\* a started engine: one empty line, cursor (1,0), normal mode; waiting is
\* set while the engine waits for the rest of a command, typed lists the
\* feed operations it received
FreshEngine == [content |-> << <<>> >>, cursor |-> <<1, 0>>, mode |-> "n",
                waiting |-> FALSE, typed |-> <<>>]

\* self.buffer[:] = lines; a buffer always has one line
SetLines(e, lines) == [e EXCEPT !.content = IF lines = <<>> THEN << <<>> >> ELSE lines]

\* :normal! gg
NormalGG(e) ==
    [e EXCEPT !.cursor = <<1, Min(e.cursor[2], Max(0, Len(e.content[1]) - 1))>>]

\* a character typed in insert mode
InsertChar(e, k) ==
    LET row == e.cursor[1]
        col == e.cursor[2]
        line == e.content[row]
    IN  [e EXCEPT !.content[row] = SubSeq(line, 1, col) \o <<k>> \o SubSeq(line, col + 1, Len(line)),
                  !.cursor = <<row, col + 1>>]

\* one key processed by the engine
nvim_key(e, k) ==
    IF e.waiting THEN [e EXCEPT !.waiting = FALSE]
    ELSE CASE e.mode = "i" ->
                IF k = "ESC"
                THEN [e EXCEPT !.mode = "n", !.cursor = <<e.cursor[1], Max(0, e.cursor[2] - 1)>>]
                ELSE InsertChar(e, k)
           [] e.mode = "n" ->
                CASE k \in {"i", "v", "V"} -> [e EXCEPT !.mode = k]
                  [] OTHER -> e
           [] OTHER ->
                CASE k = "ESC" \/ k = e.mode -> [e EXCEPT !.mode = "n"]
                  [] k \in {"v", "V"} -> [e EXCEPT !.mode = k]
                  [] k = "i" -> [e EXCEPT !.waiting = TRUE]
                  [] OTHER -> e

RECURSIVE nvim_keys(_, _)
nvim_keys(e, ks) == IF ks = <<>> THEN e ELSE nvim_keys(nvim_key(e, Head(ks)), Tail(ks))

\* nvim.api.feedkeys(processed_keys, "n", False)
feedkeys(e, processed_keys) ==
    [nvim_keys(e, processed_keys) EXCEPT !.typed = Append(e.typed, processed_keys)]

(***************************************************************************)
(* RawNvimEditor (raw_editor.py) as an object: proc is the engine process, *)
(* attached tells whether the client is connected, nvim is the engine.      *)
(***************************************************************************)
None == [none |-> TRUE, lines |-> <<>>]
List(lines) == [none |-> FALSE, lines |-> lines]

\* the buffer seeded with the lines appended below its first line
InitialBuffer_Appended(initial_content) ==
    IF ~initial_content.none /\ initial_content.lines # <<>>
    THEN << <<>> >> \o initial_content.lines
    ELSE << <<>> >>

\* if initial_content: ... else: self.buffer[:] = [""] (lines 41-44)
InitialBuffer(initial_content) ==
    IF ~initial_content.none /\ initial_content.lines # <<>>
    THEN initial_content.lines
    ELSE << <<>> >>

\* RawNvimEditor.__init__ (lines 24-48) when nothing raises
RawNvimEditor(initial_content) ==
    [ proc |-> "running",
      attached |-> TRUE,
      nvim |-> NormalGG(SetLines(FreshEngine, InitialBuffer(initial_content))) ]

\* type_keys (lines 65-77)
type_keys(editor, keys) ==
    [editor EXCEPT !.nvim = feedkeys(editor.nvim, replace_termcodes(keys))]

\* close (lines 56-63): quit, terminate, wait(timeout=5); when the wait
\* raises the process has not exited
editor_close(editor, wait_raises) ==
    [editor EXCEPT !.attached = FALSE,
                   !.proc = IF wait_raises THEN @ ELSE "terminated"]

(***************************************************************************)
(* VimAgent (vim_agent.py).                                                *)
(***************************************************************************)
Raise(e) == [kind |-> "exc", value |-> e]
Blocked == [kind |-> "blocked", value |-> 0]
NotActive == "Agent is not active"

\* VimAgentState (lines 14-23), without its timestamp
VimAgentState(buffer_content, cursor_position, mode) ==
    [buffer_content |-> buffer_content, cursor_position |-> cursor_position, mode |-> mode]

\* VimAgentState.to_dict (lines 25-38)
state_to_dict(state) ==
    [ buffer_content |-> state.buffer_content,
      cursor_position |-> state.cursor_position,
      mode |-> state.mode,
      line_count |-> Len(state.buffer_content),
      current_line |-> IF state.buffer_content # <<>>
                       THEN state.buffer_content[state.cursor_position[1]]
                       ELSE <<>> ]

\* VimEditCommand (lines 41-59), without its timestamp
VimEditCommand(keystrokes, description) ==
    [keystrokes |-> keystrokes, description |-> description, expected_result |-> "None"]

\* get_current_state (lines 97-101) when the session answers
get_current_state(a) ==
    VimAgentState(a.editor.nvim.content, a.editor.nvim.cursor, a.editor.nvim.mode)

\* the state history keeping only the latest snapshot
_record_current_state_latest(a) ==
    [a EXCEPT !.state_history = << get_current_state(a) >>]

\* _record_current_state (lines 103-106)
_record_current_state(a) ==
    [a EXCEPT !.state_history = Append(@, get_current_state(a))]

\* description or keystrokes
DescriptionOr(description, keystrokes) ==
    IF description # <<>> THEN description ELSE keystrokes

\* the exception leaving execute_command
execute_reraise(command, e) == Raise(e)

\* except Exception as e (lines 141-147)
execute_except(command, e) ==
    Val([ success |-> FALSE,
          command |-> command,
          error |-> e,
          message |-> <<"Failed to execute: ", DescriptionOr(command.description, command.keystrokes)>> ])

\* the results a call into the session can have inside execute_command
ExecOutcomes == {"ok", "type_keys_raises", "record_raises", "state_raises"}

\* execute_command recording the command only once it succeeded
execute_command_record_on_success(a, keystrokes, description, o) ==
    IF ~a.active THEN [agent |-> a, result |-> Raise(NotActive)]
    ELSE LET command == VimEditCommand(keystrokes, description)
             a2 == [a EXCEPT !.editor = type_keys(@, keystrokes)]
             a3 == [_record_current_state(a2) EXCEPT !.command_history = Append(@, command)]
         IN  IF o # "ok" \/ ~a.editor.attached
             THEN [agent |-> a, result |-> execute_except(command, "session error")]
             ELSE IF a2.editor.nvim.waiting
             THEN [agent |-> a2, result |-> Blocked]
             ELSE [agent |-> a3,
                   result |-> Val([ success |-> TRUE,
                                    command |-> command,
                                    state |-> state_to_dict(get_current_state(a3)),
                                    message |-> <<"Executed: ",
                                                  DescriptionOr(description, keystrokes)>> ])]

\* execute_command (lines 108-147); o tells which call into the session
\* raises; a query of an engine that waits for the rest of a command never
\* answers
execute_command(a, keystrokes, description, o) ==
    IF ~a.active THEN [agent |-> a, result |-> Raise(NotActive)]
    ELSE LET command == VimEditCommand(keystrokes, description)
             a1 == [a EXCEPT !.command_history = Append(@, command)]
             a2 == [a1 EXCEPT !.editor = type_keys(@, keystrokes)]
             a3 == _record_current_state(a2)
         IN  IF o = "type_keys_raises" \/ ~a.editor.attached
             THEN [agent |-> a1, result |-> execute_except(command, "session error")]
             ELSE IF a2.editor.nvim.waiting
             THEN [agent |-> a2, result |-> Blocked]
             ELSE IF o = "record_raises"
             THEN [agent |-> a2, result |-> execute_except(command, "session error")]
             ELSE IF o = "state_raises"
             THEN [agent |-> a3, result |-> execute_except(command, "session error")]
             ELSE [agent |-> a3,
                   result |-> Val([ success |-> TRUE,
                                    command |-> command,
                                    state |-> state_to_dict(get_current_state(a3)),
                                    message |-> <<"Executed: ",
                                                  DescriptionOr(description, keystrokes)>> ])]

\* a command of execute_commands: a str, or a dict read with .get
Str(keystrokes) == [str |-> keystrokes]
IsStr(cmd) == "str" \in DOMAIN cmd
Get(cmd, key, default) == IF key \in DOMAIN cmd THEN cmd[key] ELSE default

\* a loop that goes on after a failed command
batch_never_stops(res) == FALSE

\* if not result["success"]: break (lines 174-175)
batch_stops(res) == ~res.success

\* execute_commands (lines 149-177) from command k on
RECURSIVE execute_commands_from(_, _, _, _, _)
execute_commands_from(a, commands, outs, k, results_) ==
    IF k > Len(commands) THEN [agent |-> a, result |-> Val(results_), calls |-> k - 1]
    ELSE LET cmd == commands[k]
             r == IF IsStr(cmd)
                  THEN execute_command(a, cmd.str, <<>>, outs[k])
                  ELSE execute_command(a, Get(cmd, "keystrokes", <<>>),
                                       Get(cmd, "description", <<>>), outs[k])
             calls == IF a.active THEN k ELSE k - 1
         IN  IF r.result.kind # "value"
             THEN [agent |-> r.agent, result |-> r.result, calls |-> calls]
             ELSE IF batch_stops(r.result.value)
             THEN [agent |-> r.agent, result |-> Val(Append(results_, r.result.value)),
                   calls |-> calls]
             ELSE execute_commands_from(r.agent, commands, outs, k + 1,
                                        Append(results_, r.result.value))

execute_commands(a, commands, outs) == execute_commands_from(a, commands, outs, 1, <<>>)

\* get_buffer_summary (lines 179-199)
RECURSIVE total_characters(_)
total_characters(lines) ==
    IF lines = <<>> THEN 0 ELSE Len(Head(lines)) + total_characters(Tail(lines))

get_buffer_summary(state) ==
    LET content_ == state.buffer_content
    IN  [ line_count |-> Len(content_),
          mode |-> state.mode,
          cursor_position |-> state.cursor_position,
          current_line_number |-> state.cursor_position[1],
          current_column |-> state.cursor_position[2],
          current_line_content |-> IF content_ # <<>>
                                   THEN content_[state.cursor_position[1]] ELSE <<>>,
          buffer_content |-> content_,
          is_empty |-> (Len(content_) = 1 /\ content_[1] = <<>>),
          total_characters |-> total_characters(content_) ]

\* get_context_window (lines 217-248); cursor_column None is written -1
get_context_window(state, lines_before, lines_after) ==
    LET content_ == state.buffer_content
        cursor_row == state.cursor_position[1]
        start_line == Max(1, cursor_row - lines_before)
        end_line == Min(Len(content_), cursor_row + lines_after)
        context_lines ==
            [ n \in 1..Max(0, end_line + 1 - start_line) |->
                LET i == start_line + n - 1
                IN  [ line_number |-> i,
                      content |-> IF i <= Len(content_) THEN content_[i] ELSE <<>>,
                      is_cursor_line |-> (i = cursor_row),
                      cursor_column |-> IF i = cursor_row
                                        THEN state.cursor_position[2] ELSE -1 ] ]
    IN  [ cursor_position |-> state.cursor_position,
          mode |-> state.mode,
          context_lines |-> context_lines,
          window_start |-> start_line,
          window_end |-> end_line,
          total_lines |-> Len(content_) ]

\* the hint lists of suggest_next_actions (lines 260-294)
NormalHints ==
    << "i - Enter insert mode at cursor",
       "A - Enter insert mode at end of line",
       "o - Open new line below and enter insert mode",
       "O - Open new line above and enter insert mode",
       "dd - Delete current line",
       "yy - Yank (copy) current line",
       "p - Paste below cursor",
       "gg - Go to first line",
       "G - Go to last line",
       "/text - Search for 'text'",
       ":%s/old/new/g - Replace all 'old' with 'new'" >>

InsertHints ==
    << "<Esc> - Return to normal mode",
       "Type text to insert at cursor",
       "<Enter> - Create new line",
       "<BS> - Backspace",
       "<C-w> - Delete word backwards" >>

VisualHints ==
    << "d - Delete selection",
       "y - Yank (copy) selection",
       "<Esc> - Return to normal mode",
       "c - Change (delete and enter insert mode)" >>

\* hints that leave out what an empty buffer cannot use
suggest_by_content(state) ==
    IF state.mode = "n"
    THEN IF state.buffer_content = << <<>> >> THEN SubSeq(NormalHints, 1, 4) ELSE NormalHints
    ELSE IF state.mode = "i" THEN InsertHints
    ELSE IF state.mode \in {"v", "V"} THEN VisualHints
    ELSE <<>>

\* suggest_next_actions (lines 250-296)
suggest_next_actions(state) ==
    IF state.mode = "n" THEN NormalHints
    ELSE IF state.mode = "i" THEN InsertHints
    ELSE IF state.mode = "v" THEN VisualHints
    ELSE <<>>

\* get_editing_session_summary (lines 298-307), without session_duration
get_editing_session_summary(a) ==
    [ total_commands |-> Len(a.command_history),
      current_state |-> state_to_dict(get_current_state(a)),
      command_history |-> a.command_history,
      state_changes |-> Len(a.state_history) ]

\* stand for the two marker characters of format_state_for_llm
CursorMarker == "CURSORMARKER"
CursorBar == "CURSORBAR"

\* lines 337-350: one output line per context line
FormatContextLine(line_info) ==
    LET c == line_info.content
        pos == line_info.cursor_column
    IN  << IF line_info.is_cursor_line THEN CursorMarker ELSE "   ",
           line_info.line_number,
           IF line_info.is_cursor_line /\ pos # -1
           THEN IF pos < Len(c)
                THEN SubSeq(c, 1, pos) \o <<CursorBar>> \o SubSeq(c, pos + 1, Len(c))
                ELSE c \o <<CursorBar>>
           ELSE c >>

\* format_state_for_llm (lines 322-358) of an active agent: the output lines
format_state_for_llm(state, include_suggestions) ==
    LET context == get_context_window(state, 3, 3)
        summary == get_buffer_summary(state)
        hints == suggest_next_actions(state)
    IN  << <<"=== VIM EDITOR STATE ===">>,
           <<"Mode: ", summary.mode>>,
           <<"Cursor: Line ", summary.current_line_number, ", Column ", summary.current_column>>,
           <<"Total Lines: ", summary.line_count>>,
           <<"Total Characters: ", summary.total_characters>>,
           <<"">>,
           <<"=== BUFFER CONTEXT ===">> >>
        \o [ n \in 1..Len(context.context_lines) |-> FormatContextLine(context.context_lines[n]) ]
        \o (IF include_suggestions
            THEN << <<"">>, <<"=== SUGGESTED ACTIONS ===">> >>
                 \o [ n \in 1..Min(5, Len(hints)) |-> <<"  * ", hints[n]>> ]
            ELSE <<>>)

(***************************************************************************)
(* The calls a program makes on one VimAgent, one after the other.         *)
(***************************************************************************)
\* keystrokes and descriptions handed to execute_command
ExecuteArgs == { << <<"i">>, <<"g", "o">> >>, << <<"v">>, <<>> >>, << <<"V">>, <<>> >> }

\* commands handed to execute_commands
BatchCommands == { Str(<<"V">>), [keystrokes |-> <<"v">>] }
Batches == UNION { [1..n -> BatchCommands] : n \in 0..MaxCmds }

\* initial_content of VimAgent(...)
InitialContents ==
    { None, List(<<>>), List(<< <<"a", "b">>, <<>> >>) }

\* the call before has returned or raised
AgentReady == agent # NoAgent /\ ret.kind # "blocked"

Called(op, args, session_raised, r) ==
    [op |-> op, args |-> args, session_raised |-> session_raised,
     kind |-> r.kind, value |-> r.value]

\* what a query answers: the inactive-agent error, the exception of the
\* session, or its value
Answer(a, o, v) ==
    IF ~a.active THEN Raise(NotActive)
    ELSE IF o = "raises" \/ ~a.editor.attached THEN Raise("session error")
    ELSE Val(v)

SessionRaises(a, o) == a.active /\ (o # "ok" \/ ~a.editor.attached)

\* VimAgent(initial_content) (lines 70-78)
Construct(initial_content) ==
    /\ agent = NoAgent \/ hist.close_called
    /\ ret.kind # "blocked"
    /\ \E o \in {"ok", "open_raises", "record_raises"} :
        /\ agent' = IF o = "ok"
                    THEN _record_current_state(
                            [ editor |-> RawNvimEditor(initial_content),
                              command_history |-> <<>>,
                              state_history |-> <<>>,
                              active |-> TRUE ])
                    ELSE NoAgent
        /\ ret' = Called("VimAgent", <<initial_content>>, o # "ok",
                         IF o = "ok" THEN Val(0) ELSE Raise("session error"))
    /\ hist' = [executes |-> 0, close_called |-> FALSE,
                reopened |-> (hist.close_called /\ initial_content = hist.initial_content),
                initial_content |-> initial_content]
    /\ UNCHANGED << mainVars, unitVars, ctx >>

\* agent.execute_command(keystrokes, description)
Execute(keystrokes, description) ==
    /\ AgentReady
    /\ Len(agent.command_history) < MaxCmds
    /\ \E o \in ExecOutcomes :
        LET r == execute_command(agent, keystrokes, description, o)
        IN  /\ agent' = r.agent
            /\ ret' = Called("execute_command", <<keystrokes, description>>,
                             SessionRaises(agent, o), r.result)
    /\ hist' = [hist EXCEPT !.executes = IF agent.active THEN @ + 1 ELSE @]
    /\ UNCHANGED << mainVars, unitVars, ctx >>

\* the call into the session that fails is named once: what the session would
\* do for the commands after it is not part of the input
FirstFailureOnly(outs) ==
    \A k \in 1..Len(outs) : outs[k] # "ok" => \A l \in (k + 1)..Len(outs) : outs[l] = "ok"

\* agent.execute_commands(commands)
ExecuteBatch(commands) ==
    /\ AgentReady
    /\ Len(agent.command_history) + Len(commands) <= MaxCmds
    /\ \E outs \in [1..Len(commands) -> ExecOutcomes] :
        LET r == execute_commands(agent, commands, outs)
        IN  /\ FirstFailureOnly(outs)
            /\ agent' = r.agent
            /\ ret' = Called("execute_commands", <<commands>>,
                             \E k \in 1..Len(commands) : SessionRaises(agent, outs[k]),
                             r.result)
            /\ hist' = [hist EXCEPT !.executes = @ + r.calls]
    /\ UNCHANGED << mainVars, unitVars, ctx >>

\* agent.get_current_state()
GetCurrentState ==
    /\ AgentReady
    /\ \E o \in {"ok", "raises"} :
        ret' = Called("get_current_state", <<>>, SessionRaises(agent, o),
                      Answer(agent, o, get_current_state(agent)))
    /\ UNCHANGED << mainVars, unitVars, agent, hist, ctx >>

\* agent.get_buffer_summary()
GetBufferSummary ==
    /\ AgentReady
    /\ \E o \in {"ok", "raises"} :
        ret' = Called("get_buffer_summary", <<>>, SessionRaises(agent, o),
                      Answer(agent, o, get_buffer_summary(get_current_state(agent))))
    /\ UNCHANGED << mainVars, unitVars, agent, hist, ctx >>

\* agent.get_context_window(lines_before, lines_after)
GetContextWindow(lines_before, lines_after) ==
    /\ AgentReady
    /\ \E o \in {"ok", "raises"} :
        ret' = Called("get_context_window", <<lines_before, lines_after>>,
                      SessionRaises(agent, o),
                      Answer(agent, o, get_context_window(get_current_state(agent),
                                                          lines_before, lines_after)))
    /\ UNCHANGED << mainVars, unitVars, agent, hist, ctx >>

\* agent.suggest_next_actions(): the inactive-agent error comes from its
\* get_current_state
SuggestNextActions ==
    /\ AgentReady
    /\ \E o \in {"ok", "raises"} :
        ret' = Called("suggest_next_actions", <<>>, SessionRaises(agent, o),
                      Answer(agent, o, suggest_next_actions(get_current_state(agent))))
    /\ UNCHANGED << mainVars, unitVars, agent, hist, ctx >>

\* agent.get_editing_session_summary(): the inactive-agent error comes from
\* its get_current_state
GetEditingSessionSummary ==
    /\ AgentReady
    /\ \E o \in {"ok", "raises"} :
        ret' = Called("get_editing_session_summary", <<>>, SessionRaises(agent, o),
                      Answer(agent, o, get_editing_session_summary(agent)))
    /\ UNCHANGED << mainVars, unitVars, agent, hist, ctx >>

\* agent.format_state_for_llm(include_suggestions): an inactive agent gets a
\* fixed text, not the error (lines 319-320)
FormatStateForLLM(include_suggestions) ==
    /\ AgentReady
    /\ \E o \in {"ok", "raises"} :
        ret' = Called("format_state_for_llm", <<include_suggestions>>,
                      SessionRaises(agent, o),
                      IF ~agent.active THEN Val("Editor session is not active")
                      ELSE Answer(agent, o, format_state_for_llm(get_current_state(agent),
                                                                 include_suggestions)))
    /\ UNCHANGED << mainVars, unitVars, agent, hist, ctx >>

\* agent.close() (lines 86-90), also run by __exit__: active is cleared only
\* when editor.close() returned
AgentClose ==
    /\ AgentReady
    /\ \E o \in {"ok", "wait_raises"} :
        IF agent.active
        THEN /\ agent' = [agent EXCEPT !.editor = editor_close(@, o = "wait_raises"),
                                       !.active = (o = "wait_raises")]
             /\ ret' = Called("close", <<>>, o = "wait_raises",
                              IF o = "ok" THEN Val(0) ELSE Raise("TimeoutExpired"))
        ELSE /\ agent' = agent
             /\ ret' = Called("close", <<>>, FALSE, Val(0))
    /\ hist' = [hist EXCEPT !.close_called = TRUE]
    /\ UNCHANGED << mainVars, unitVars, ctx >>

AgentNext ==
    \/ \E ic \in InitialContents : Construct(ic)
    \/ \E x \in ExecuteArgs : Execute(x[1], x[2])
    \/ \E b \in Batches : ExecuteBatch(b)
    \/ GetCurrentState
    \/ GetBufferSummary
    \/ \E w \in {<<3, 3>>, <<0, 1>>} : GetContextWindow(w[1], w[2])
    \/ SuggestNextActions
    \/ GetEditingSessionSummary
    \/ \E inc \in BOOLEAN : FormatStateForLLM(inc)
    \/ AgentClose

AgentSpec == Init /\ [][AgentNext]_vars

(***************************************************************************)
(* get_context_window as a function of content, cursor and arguments.      *)
(***************************************************************************)
CtxLineSeqs == UNION { [1..n -> { <<>>, <<"a">> }] : n \in 1..MaxLines }

ContextInit ==
    /\ Idle
    /\ cmp = CmpIdle
    /\ agent = NoAgent /\ ret = NoCall /\ hist = HistIdle
    /\ UnitIdle
    /\ \E c \in CtxLineSeqs : \E row \in 1..Len(c) :
       \E b \in (0 - MaxWindow)..MaxWindow : \E a \in (0 - MaxWindow)..MaxWindow :
          ctx = [buffer_content |-> c, cursor_position |-> <<row, 0>>,
                 lines_before |-> b, lines_after |-> a, window |-> 0, done |-> FALSE]

ContextStep ==
    /\ ~ctx.done
    /\ ctx' = [ctx EXCEPT
                 !.window = get_context_window(
                               VimAgentState(ctx.buffer_content, ctx.cursor_position, "n"),
                               ctx.lines_before, ctx.lines_after),
                 !.done = TRUE]
    /\ UNCHANGED << mainVars, unitVars, agent, ret, hist >>

ContextNext == ContextStep

ContextSpec == ContextInit /\ [][ContextNext]_vars

(***************************************************************************)
(* count_keystrokes as a function of the keystroke sequence.               *)
(***************************************************************************)
\* what the sequences are put together from: literal characters, brackets,
\* key notations of every pattern kind in several letter cases, an
\* unrecognized notation, and the two halves of <Esc>
KeyPieces ==
    { <<"d">>, <<"1">>, <<"<">>, <<">">>,
      <<"<", "C", "R", ">">>,
      <<"<", "E", "s">>, <<"c", ">">>,
      <<"<", "c", "-", "A", ">">>,
      <<"<", "C", "-", "1", ">">>,
      <<"<", "S", "-", "b", ">">>,
      <<"<", "a", "-", "Z", ">">>,
      <<"<", "f", "1", "2", ">">>,
      <<"<", "S", "-", "T", "a", "b", ">">>,
      <<"<", "x", ">">> }

RECURSIVE Concat(_)
Concat(pieces) == IF pieces = <<>> THEN <<>> ELSE Head(pieces) \o Concat(Tail(pieces))

KeySequences == { Concat(f) : f \in UNION { [1..n -> KeyPieces] : n \in 0..MaxKeys } }

\* str.upper() of one character
Upper(c) == IF c \in Lowers THEN UpperCase[CHOOSE k \in 1..26 : LowerCase[k] = c] ELSE c

\* every named key of special_key_patterns in lower and in upper case, once
\* and twice in a row
NamedKeys ==
    LET lower == { <<"<">> \o name \o <<">">> : name \in UNION { KeyNames[p] : p \in 1..NumPatterns } }
    IN  lower \cup { [k \in 1..Len(t) |-> Upper(t[k])] : t \in lower }

NamedKeySequences == NamedKeys \cup { t \o t : t \in NamedKeys }

CountInit ==
    /\ Idle
    /\ cmp = CmpIdle
    /\ AgentIdle
    /\ ext = ExtIdle /\ pred = PredIdle /\ sess = [s \in Sessions |-> NoSession]
    /\ \E seq \in KeySequences \cup NamedKeySequences :
          cnt = [keystroke_sequence |-> seq, count |-> 0, done |-> FALSE]

CountStep ==
    /\ ~cnt.done
    /\ cnt' = [cnt EXCEPT !.count = count_keystrokes(cnt.keystroke_sequence),
                          !.done = TRUE]
    /\ UNCHANGED << mainVars, agentVars, ext, pred, sess >>

CountNext == CountStep

CountSpec == CountInit /\ [][CountNext]_vars

(***************************************************************************)
(* _looks_like_vim_command as a function of the text.                      *)
(***************************************************************************)
\* what the texts are put together from: digits, letters, punctuation, key
\* notations, prose lead-ins in two letter cases
TextPieces ==
    { <<"1">>, <<"d">>, <<"i">>, <<":">>, <<"-">>, <<" ">>, <<"/">>, <<"'">>,
      <<BackTick>>, <<"<">>, <<">">>,
      <<"<", "C", "R", ">">>,
      <<"<", "E", "s", "c", ">">>,
      <<"<", "C", "-", "x", ">">>,
      <<"S", "t", "e", "p">>,
      <<"T", "H", "E", "N">> }

Texts == { Concat(f) : f \in UNION { [1..n -> TextPieces] : n \in 0..MaxKeys } }

PredInit ==
    /\ Idle
    /\ cmp = CmpIdle
    /\ AgentIdle
    /\ cnt = CntIdle /\ ext = ExtIdle /\ sess = [s \in Sessions |-> NoSession]
    /\ \E text \in Texts : pred = [text |-> text, looks |-> FALSE, done |-> FALSE]

PredStep ==
    /\ ~pred.done
    /\ pred' = [pred EXCEPT !.looks = _looks_like_vim_command(pred.text), !.done = TRUE]
    /\ UNCHANGED << mainVars, agentVars, cnt, ext, sess >>

PredNext == PredStep

PredSpec == PredInit /\ [][PredNext]_vars

(***************************************************************************)
(* extract_solution_from_response as a function of the response text.      *)
(***************************************************************************)
\* what the response texts are put together from: the label, a fenced block,
\* fence markers without a tag and with the tags vim and py, the rest of a
\* fenced block with an interior that is a command and one that is not, an
\* inline span, a backtick, a line feed, a command, a number, a prose lead-in
ResponseParts ==
    { SolutionLabel \o <<" ">>,
      Fence \o <<"\n", ":", "s", "\n">> \o Fence,
      Fence,
      Fence \o <<"v", "i", "m">>,
      Fence \o <<"p", "y">>,
      <<"\n", ":", "s", "\n">> \o Fence,
      <<"\n", "1", "2", "\n">> \o Fence,
      <<BackTick, "i", BackTick>>,
      <<BackTick>>,
      <<"\n">>,
      <<"d", "d">>,
      <<"1", "2">>,
      <<"S", "t", "e", "p", " ">> }

ResponseTexts ==
    { Concat(f) : f \in UNION { [1..n -> ResponseParts] : n \in 0..MaxParts } }

ExtractInit ==
    /\ Idle
    /\ cmp = CmpIdle
    /\ AgentIdle
    /\ cnt = CntIdle /\ pred = PredIdle /\ sess = [s \in Sessions |-> NoSession]
    /\ \E text \in ResponseTexts :
          ext = [response_text |-> text, solution |-> <<>>, done |-> FALSE]

ExtractStep ==
    /\ ~ext.done
    /\ ext' = [ext EXCEPT !.solution = extract_solution_from_response(ext.response_text),
                          !.done = TRUE]
    /\ UNCHANGED << mainVars, agentVars, cnt, pred, sess >>

ExtractNext == ExtractStep

ExtractSpec == ExtractInit /\ [][ExtractNext]_vars

(***************************************************************************)
(* Sessions side by side: RawNvimEditor objects, some inside a VimAgent,    *)
(* and the close() calls made on them.  closes counts the close() calls,   *)
(* signals the SIGTERM signals sent to the engine, raised tells whether the *)
(* last close() raised.                                                     *)
(***************************************************************************)
\* RawNvimEditor(...) or VimAgent(...) when nothing raises
NewSession(wrapped) ==
    [ editor |-> RawNvimEditor(None),
      wrapped |-> wrapped,
      active |-> TRUE,
      closes |-> 0,
      signals |-> 0,
      raised |-> FALSE ]

\* RawNvimEditor.close (lines 56-63): quit() with its exception swallowed,
\* terminate(), which signals a process that has not been reaped, and
\* wait(timeout=5), which can time out only on such a process
session_close(x, wait_raises) ==
    [x EXCEPT !.editor = editor_close(@, wait_raises /\ x.editor.proc = "running"),
              !.signals = IF x.editor.proc = "running" THEN @ + 1 ELSE @,
              !.raised = wait_raises /\ x.editor.proc = "running"]

\* VimAgent.close (lines 86-90)
agent_close(x, wait_raises) ==
    IF x.active
    THEN [session_close(x, wait_raises) EXCEPT
            !.active = (wait_raises /\ x.editor.proc = "running")]
    ELSE [x EXCEPT !.raised = FALSE]

SessionOpen(s, wrapped) ==
    /\ sess[s] = NoSession
    /\ sess' = [sess EXCEPT ![s] = NewSession(wrapped)]
    /\ UNCHANGED << mainVars, agentVars, cnt, ext, pred >>

\* close() on the session s, or on the agent that wraps it
SessionClose(s) ==
    /\ sess[s] # NoSession
    /\ sess[s].closes < MaxCloses
    /\ \E wait_raises \in BOOLEAN :
          sess' = [sess EXCEPT ![s] =
                     [ (IF sess[s].wrapped
                        THEN agent_close(sess[s], wait_raises)
                        ELSE session_close(sess[s], wait_raises))
                       EXCEPT !.closes = @ + 1 ]]
    /\ UNCHANGED << mainVars, agentVars, cnt, ext, pred >>

SessionNext ==
    \/ \E s \in Sessions : \E wrapped \in BOOLEAN : SessionOpen(s, wrapped)
    \/ \E s \in Sessions : SessionClose(s)

SessionSpec == Init /\ [][SessionNext]_vars

(***************************************************************************)
(* Properties.                                                             *)
(***************************************************************************)
AllWhitespace(c) == \A k \in 1..Len(c) : c[k] \in Whitespace

InQueue(i) == \E k \in 1..Len(workq) : workq[k] = i

\* C1: evaluate_solution never raises: whenever a call has returned, whatever
\* failed in the session and also on a timeout, what it returned is the
\* integer 0 or the integer 1.
C1_EvaluateReturnsScore ==
    \A i \in Prob : pc[i] = "done" => score[i] \in {Val(0), Val(1)}

\* a call returned after the content query raised, and one returned on a timeout
C1_Witness ==
    /\ \E i \in Prob : pc[i] = "done" /\ fut[i] = "returned" /\ pending[i] = Exc
    /\ \E i \in Prob : pc[i] = "done" /\ fut[i] = "timedout"

\* C2: for an empty or whitespace-only candidate evaluate_solution returns 0
\* at once and opens no session: no work item is submitted and no engine
\* process is spawned, for every problem.
C2_BlankCandidateNoSession ==
    \A i \in Prob :
        (caller[i] = "direct" /\ AllWhitespace(cand[i]))
            => /\ pc[i] = "done"
               /\ score[i] = Val(0)
               /\ fut[i] = "none"
               /\ wpc[i] = "none"
               /\ proc[i] = "none"
               /\ ~InQueue(i)

\* a whitespace-only candidate was evaluated for a problem whose start_text is
\* its end_text, and an empty one for another problem
C2_Witness ==
    /\ \E i \in Prob : /\ pc[i] = "done"
                       /\ cand[i] = <<" ">>
                       /\ problems(i).start_text = problems(i).end_text
    /\ \E i \in Prob : pc[i] = "done" /\ caller[i] = "direct" /\ cand[i] = <<>>

\* C3: when the evaluation did not time out and the content was read, the
\* score is 1 exactly when the content matches the expected lines, whatever
\* happens while the session is closed.
C3_ScoreIffContentMatches ==
    \A i \in Prob :
        (pc[i] = "done" /\ fut[i] = "returned" /\ content[i] # NoContent)
            => (score[i] = Val(1) <=> CompareScore(content[i], ExpectedLines(i)) = 1)

\* the reference rule of the comparison: a line is wholly empty when it is ''
RemoveEmptyLines(lines) == SelectSeq(lines, LAMBDA l : l # <<>>)

ReferenceMatch(result_lines, expected_lines) ==
    \/ PopTrailingEmpty(result_lines) = PopTrailingEmpty(expected_lines)
    \/ RemoveEmptyLines(result_lines) = RemoveEmptyLines(expected_lines)

\* C4: the comparison succeeds exactly when the sequences are equal after
\* removing the empty trailing lines, or equal after removing every line equal
\* to ''; a line of spaces or tabs is kept.
C4_CompareEqualsReference ==
    cmp.done => (cmp.score = 1 <=> ReferenceMatch(cmp.result_lines, cmp.expected_lines))

\* C5: after a timeout the session of that evaluation is still closed: when
\* the evaluation has timed out and its worker is blocked on a call the engine
\* never answers, the engine process is eventually not running any more.
C5_TimeoutStillCloses ==
    \A i \in Prob :
        []((fut[i] = "timedout" /\ wpc[i] = "blocked") => <>(proc[i] # "running"))

\* C6: a session that was opened is closed on every exit path without a
\* timeout: once the worker has finished and evaluate_solution has returned
\* its result, the engine process is not running.
C6_OpenedSessionClosed ==
    \A i \in Prob :
        (opened[i] /\ wpc[i] = "finished" /\ fut[i] = "returned") => proc[i] # "running"

\* C7: every call of evaluate_solution that is waiting for its evaluation
\* eventually returns, also when the engine never answers.
C7_EvaluateReturns ==
    \A i \in Prob : (pc[i] = "awaiting_eval") ~> (pc[i] = "done")

\* a call returned while its worker is blocked for good
C7_Witness == \E i \in Prob : pc[i] = "done" /\ wpc[i] = "blocked"

\* C8: solve_all_problems returns one result per problem, result k carrying
\* the id of problem k, whatever failed and in whatever order the tasks
\* completed.
C8_OneResultPerProblem ==
    phase = "returned"
        => /\ Len(results) = NProb
           /\ \A k \in 1..NProb : results[k].problem_id = problems(k).id

\* the run returned, the tasks completed in another order than the problems'
\* and one problem failed
C8_Witness ==
    /\ phase = "returned"
    /\ doneOrder[1] # 1
    /\ \E k \in 1..NProb : ~results[k].success

\* the variables of problem j are what they were
Untouched(j) ==
    /\ pc'[j] = pc[j]
    /\ resp'[j] = resp[j]
    /\ cand'[j] = cand[j]
    /\ fut'[j] = fut[j]
    /\ wpc'[j] = wpc[j]
    /\ pending'[j] = pending[j]
    /\ wres'[j] = wres[j]
    /\ proc'[j] = proc[j]
    /\ opened'[j] = opened[j]
    /\ content'[j] = content[j]
    /\ score'[j] = score[j]
    /\ result'[j] = result[j]

HardFailure(i) == pc[i] = "done" /\ caller[i] = "solve_problem" /\ ~result[i].success

\* C9: an exception for one problem is recorded in that problem's result only
\* (success false, error detail, score 0, count 0), no evaluation was attempted
\* for it, a result once recorded is what the problem's own completion and
\* evaluation gave, and the step that records the failure changes nothing of
\* any other problem.
C9_FailureIsolated ==
    /\ [](\A i \in Prob :
            /\ HardFailure(i)
                => /\ result[i].eval_score = 0
                   /\ result[i].keystroke_count = 0
                   /\ "error" \in DOMAIN result[i]
                   /\ fut[i] = "none" /\ wpc[i] = "none" /\ proc[i] = "none"
                   /\ score[i] = NoRet /\ ~InQueue(i)
            /\ (pc[i] = "done" /\ caller[i] = "solve_problem" /\ result[i].success)
                => /\ result[i].problem_id = problems(i).id
                   /\ result[i].keystroke_sequence = cand[i]
                   /\ result[i].eval_score =
                        (IF score[i] = NoRet THEN 0 ELSE score[i].value))
    /\ [][\A i \in Prob :
            (pc[i] # "done" /\ pc'[i] = "done" /\ ~result'[i].success)
                => /\ workq' = workq
                   /\ \A j \in Prob \ {i} : Untouched(j)]_vars

\* one problem failed and another one was evaluated and scored 1
C9_Witness ==
    /\ \E i \in Prob : HardFailure(i)
    /\ \E j \in Prob : pc[j] = "done" /\ result[j].success /\ result[j].eval_score = 1

\* C10: a timed-out evaluation does not keep a sibling from running: no
\* evaluation is timed out in the queue, never started, while every thread of
\* the executor is held and one of them by the blocked worker of a timed-out
\* evaluation.
C10_TimeoutSparesSiblings ==
    \A j \in Prob :
        (fut[j] = "timedout" /\ wpc[j] = "queued")
            => ~( /\ Cardinality(Busy) >= MaxWorkers
                  /\ \E i \in Busy : fut[i] = "timedout" /\ wpc[i] = "blocked" )

\* C11: when the extractor returns the empty string for a problem's completion
\* the orchestrator short-circuits: evaluate_solution is not called and no
\* work item, directory or engine exists for the problem, and its result is
\* reported as successful with score 0 and keystroke count 0.
C11_ExtractionMissShortCircuits ==
    \A i \in Prob :
        ( /\ caller[i] = "solve_problem"
          /\ resp[i] # <<>>
          /\ ExtractionOf[resp[i]] = <<>> )
            => /\ pc[i] = "done"
               /\ result[i].success
               /\ "error" \notin DOMAIN result[i]
               /\ result[i].eval_score = 0
               /\ result[i].keystroke_count = 0
               /\ score[i] = NoRet
               /\ fut[i] = "none" /\ wpc[i] = "none" /\ ~InQueue(i)
               /\ proc[i] = "none" /\ tmpdir[i] = 0

\* a completion without a command was received for one problem while the
\* engine of another problem is running
C11_Witness ==
    /\ \E i \in Prob : /\ caller[i] = "solve_problem"
                       /\ resp[i] # <<>>
                       /\ ExtractionOf[resp[i]] = <<>>
    /\ \E j \in Prob : proc[j] = "running"

CommandOf(cmd) ==
    IF IsStr(cmd) THEN VimEditCommand(cmd.str, <<>>)
    ELSE VimEditCommand(Get(cmd, "keystrokes", <<>>), Get(cmd, "description", <<>>))

\* a step that is a call of op on the agent (every call sets ret.op)
CallStep(op) == ret'.op = op

\* C13: every execute call on an active agent appends exactly one command
\* record, carrying the keystrokes and the description of the call, whether
\* the execution succeeded or failed: the command history is as long as the
\* number of execute calls made on the active agent.
C13_OneRecordPerExecute ==
    agent # NoAgent
        => /\ Len(agent.command_history) = hist.executes
           /\ (ret.op = "execute_command" /\ ret.kind # "exc")
                => LET c == agent.command_history[Len(agent.command_history)]
                   IN  c.keystrokes = ret.args[1] /\ c.description = ret.args[2]

\* a failed execution after a successful one, both recorded
C13_Witness ==
    /\ agent # NoAgent
    /\ Len(agent.command_history) = 2
    /\ Len(agent.state_history) = 2
    /\ ret.op = "execute_command" /\ ret.kind = "value" /\ ~ret.value.success

\* C14: a state snapshot is recorded at construction and once after every
\* executed command, failed ones included: the state history is always one
\* longer than the command history.
C14_SnapshotPerCommand ==
    agent # NoAgent => Len(agent.state_history) = Len(agent.command_history) + 1

\* C15: once close() has been called on an agent, every other operation
\* fails with the inactive-agent error, and the failed call changes neither
\* history.
C15_InactiveAfterClose ==
    /\ []((agent # NoAgent /\ hist.close_called /\ ret.op # "close")
            => (ret.kind = "exc" /\ ret.value = NotActive))
    /\ [][(agent # NoAgent /\ hist.close_called /\ ret'.op \notin {"close", "VimAgent"})
            => /\ agent'.command_history = agent.command_history
               /\ agent'.state_history = agent.state_history]_vars

\* C16: execute_commands executes the commands in list order and stops at the
\* first failed one: one result per command up to and including the first
\* failure, only the last result can have success false, one result per
\* command when none fails, and exactly the commands that have a result are
\* recorded in the command history and no later one is fed to the engine.
C16_BatchStopsAtFirstFailure ==
    [][(agent # NoAgent /\ CallStep("execute_commands") /\ ret'.kind = "value")
        => LET commands == ret'.args[1]
               rs == ret'.value
               n == Len(rs)
           IN  /\ n <= Len(commands)
               /\ \A k \in 1..n : rs[k].command = CommandOf(commands[k])
               /\ \A k \in 1..(n - 1) : rs[k].success
               /\ n < Len(commands) => (n >= 1 /\ ~rs[n].success)
               /\ agent'.command_history =
                    agent.command_history \o [k \in 1..n |-> rs[k].command]
               /\ Len(agent'.editor.nvim.typed) <= Len(agent.editor.nvim.typed) + n
               /\ Len(agent'.editor.nvim.typed) >= Len(agent.editor.nvim.typed) + n - 1]_vars

\* a batch of two commands stopped at its first one
C16_Witness ==
    /\ ret.op = "execute_commands" /\ ret.kind = "value"
    /\ Len(ret.args[1]) = 2
    /\ Len(ret.value) = 1
    /\ ~ret.value[1].success
    /\ Len(agent.command_history) = 1

\* C17: execute on an active agent never raises; it returns success true
\* exactly when no call into the session raised, whatever the keystrokes and
\* the resulting state, and a result with success false carries the error
\* text.
C17_ExecuteNeverRaises ==
    [][(agent # NoAgent /\ agent.active /\ CallStep("execute_command"))
        => /\ ret'.kind # "exc"
           /\ ret'.kind = "value"
                => /\ ret'.value.success <=> ~ret'.session_raised
                   /\ ~ret'.value.success => "error" \in DOMAIN ret'.value
                   /\ ret'.value.success => "state" \in DOMAIN ret'.value]_vars

\* an execution failed because the session raised after the keys were fed, and
\* the keys were typed as text in insert mode
C17_Witness ==
    /\ agent # NoAgent
    /\ ret.op = "execute_command" /\ ret.kind = "value"
    /\ ~ret.value.success
    /\ agent.active /\ agent.editor.attached
    /\ agent.editor.nvim.mode = "i"
    /\ agent.editor.nvim.content # InitialBuffer(hist.initial_content)

\* C18: for every content, cursor row and pair of integers before/after the
\* context window has 1 <= window_start <= window_end <= line_count, lists
\* exactly the lines window_start..window_end in order, and marks exactly one
\* listed line as the cursor line, the one at the cursor row.
C18_WindowClamped ==
    ctx.done
        => LET w == ctx.window
               ls == w.context_lines
               row == ctx.cursor_position[1]
           IN  /\ 1 <= w.window_start
               /\ w.window_start <= w.window_end
               /\ w.window_end <= Len(ctx.buffer_content)
               /\ Len(ls) = w.window_end - w.window_start + 1
               /\ \A n \in 1..Len(ls) :
                    /\ ls[n].line_number = w.window_start + n - 1
                    /\ ls[n].content = ctx.buffer_content[w.window_start + n - 1]
                    /\ ls[n].is_cursor_line <=> (ls[n].line_number = row)
               /\ Cardinality({ n \in 1..Len(ls) : ls[n].is_cursor_line }) = 1

C20_OpenDeterministic ==
    (agent # NoAgent /\ ret.op = "VimAgent" /\ ret.kind = "value")
        => LET ic == hist.initial_content
               e == agent.editor.nvim
               start == agent.state_history[1]
           IN  /\ (~ic.none /\ ic.lines # <<>>) => e.content = ic.lines
               /\ (ic.none \/ ic.lines = <<>>) => e.content = << <<>> >>
               /\ e.mode = "n"
               /\ e.cursor = <<1, 0>>
               /\ start = VimAgentState(e.content, <<1, 0>>, "n")

\* a session reopened with the lines of the session closed before it, which
\* had been edited
C20_Witness ==
    /\ agent # NoAgent
    /\ ret.op = "VimAgent" /\ ret.kind = "value"
    /\ hist.reopened
    /\ ~hist.initial_content.none /\ hist.initial_content.lines # <<>>


\* position of the first '>' behind a '<' at k, when a pattern matches there
TokenEnd(s, k) ==
    IF \E p \in 1..NumPatterns : MatchEnd(p, s, k) # 0
    THEN FirstIn(s, k + 1, {">"}) ELSE 0

\* a bracketed span: a '<' with a '>' somewhere behind it
HasBracketSpan(s) ==
    \E k \in 1..Len(s) : \E m \in (k + 1)..Len(s) : s[k] = "<" /\ s[m] = ">"

\* t is one recognized special-key notation, in any letter case
RecognizedToken(t) == Len(t) >= 3 /\ TokenEnd(t, 1) = Len(t)

\* C22: a keystroke sequence of literal characters only, without any '<...>'
\* notation, counts as many keystrokes as it has characters; the empty
\* sequence counts 0.
C22_LiteralCountIsLength ==
    (cnt.done /\ ~HasBracketSpan(cnt.keystroke_sequence))
        => cnt.count = Len(cnt.keystroke_sequence)

\* a sequence of several literal characters, one of them a lone bracket, was counted
C22_Witness ==
    /\ cnt.done
    /\ ~HasBracketSpan(cnt.keystroke_sequence)
    /\ Len(cnt.keystroke_sequence) = MaxKeys
    /\ \E k \in 1..Len(cnt.keystroke_sequence) : cnt.keystroke_sequence[k] = "<"
    /\ cnt.count = MaxKeys

\* C23: every recognized special-key notation t, in any letter case, counts
\* 1, and t followed by t counts 2.
C23_TokenCountsOne ==
    cnt.done =>
        /\ RecognizedToken(cnt.keystroke_sequence) => cnt.count = 1
        /\ \A n \in 1..Len(cnt.keystroke_sequence) :
              ( /\ Len(cnt.keystroke_sequence) = 2 * n
                /\ RecognizedToken(SubSeq(cnt.keystroke_sequence, 1, n))
                /\ SubSeq(cnt.keystroke_sequence, n + 1, 2 * n)
                     = SubSeq(cnt.keystroke_sequence, 1, n) )
              => cnt.count = 2

\* a function key written in lower case, twice in a row, was counted as 2
C23_Witness ==
    /\ cnt.done
    /\ cnt.keystroke_sequence = <<"<", "f", "1", "2", ">", "<", "f", "1", "2", ">">>
    /\ cnt.count = 2

\* the reference tokenization of the original string: a recognized notation
\* is one keystroke, every other character is one keystroke
RECURSIVE ReferenceCount(_, _)
ReferenceCount(s, k) ==
    IF k > Len(s) THEN 0
    ELSE IF TokenEnd(s, k) # 0 THEN 1 + ReferenceCount(s, TokenEnd(s, k) + 1)
    ELSE 1 + ReferenceCount(s, k + 1)

\* C24: for every string the count is the reference tokenization of the
\* original string; characters that become adjacent only because a notation
\* between them was removed are literal characters, never a new notation.
C24_CountIsReferenceTokenization ==
    cnt.done => cnt.count = ReferenceCount(cnt.keystroke_sequence, 1)

\* the loop of count_keystrokes with the patterns taken in the given order
RECURSIVE CountInOrder(_, _)
CountInOrder(order, temp_sequence) ==
    IF order = <<>> THEN Len(temp_sequence)
    ELSE CountMatches(Head(order), temp_sequence, 1)
         + CountInOrder(Tail(order), RemoveMatches(Head(order), temp_sequence, 1))

RECURSIVE RemainingInOrder(_, _)
RemainingInOrder(order, temp_sequence) ==
    IF order = <<>> THEN temp_sequence
    ELSE RemainingInOrder(Tail(order), RemoveMatches(Head(order), temp_sequence, 1))

\* the order of the source with two patterns exchanged, and its reverse
PatternOrders ==
    { [p \in 1..NumPatterns |-> IF p = i THEN j ELSE IF p = j THEN i ELSE p] :
        i \in 1..NumPatterns, j \in 1..NumPatterns }
    \cup { [p \in 1..NumPatterns |-> NumPatterns + 1 - p] }

NumberOf(c, s) == Cardinality({ k \in 1..Len(s) : s[k] = c })

\* C25: the count does not depend on the order in which the patterns are
\* applied, and no span is counted by two patterns (every counted notation
\* has an opening bracket of its own).
C25_CountOrderIndependent ==
    cnt.done =>
        \A order \in PatternOrders :
            /\ CountInOrder(order, cnt.keystroke_sequence) = cnt.count
            /\ CountInOrder(order, cnt.keystroke_sequence)
                  - Len(RemainingInOrder(order, cnt.keystroke_sequence))
               <= NumberOf("<", cnt.keystroke_sequence)


\* a bracketed special-key tag: '<', a name that starts with a letter and
\* goes on with letters, digits and hyphens, '>'
BracketedTag(text) ==
    \E k \in 1..Len(text) : \E m \in (k + 2)..Len(text) :
        /\ text[k] = "<" /\ text[m] = ">"
        /\ text[k + 1] \in Letters
        /\ \A j \in (k + 1)..(m - 1) : text[j] \in Letters \cup Digits \cup {"-"}

\* the rule the predicate is stated to follow
StatedLikelihood(text) ==
    /\ text # <<>>
    /\ ~\E phrase \in ProsePhrases : StartsWith(LowerText(text), phrase)
    /\ \/ text[1] = ":"
       \/ LET m == FirstIn(text, 1, {c \in {text[j] : j \in 1..Len(text)} : c \notin Digits})
          IN  m <= Len(text) /\ text[m] \in Letters
       \/ BracketedTag(text)
       \/ \E k \in 1..Len(text) : text[k] \in {"i", "j", "a", "o", "I", "O"}
       \/ \E k \in 1..Len(text) : text[k] \in {"/", "?", "'", "\"", BackTick}

\* C30: the command-likelihood predicate equals its stated rule for every
\* text: false for the empty text and after a prose lead-in, otherwise true
\* exactly for a leading colon, a leading digit-count plus letter, a
\* bracketed special-key tag, a mode-entry letter, a search character, or a
\* quote or backtick.
C30_PredicateIsStatedRule ==
    pred.done => (pred.looks <=> StatedLikelihood(pred.text))


\* a candidate is accepted: it is not empty and passes the predicate
Accepted(candidate) == candidate # <<>> /\ _looks_like_vim_command(candidate)

\* three backticks, optionally followed by a tag
IsFenceMarker(t) == StartsWith(t, Fence) /\ \A j \in 4..Len(t) : t[j] \in Letters

\* the structural candidate of each rule, <<>> when the rule has none
LabelCandidate(text) ==
    LET m == SolutionSearch(text, 1)
    IN  IF m.found /\ Strip(m.group) \notin FenceMarkers
        THEN _clean_backticks(Strip(m.group)) ELSE <<>>

FenceCandidate(text) ==
    LET m == CodeBlockSearch(text, 1) IN IF m.found THEN Strip(m.group) ELSE <<>>

SpanCandidate(text) ==
    LET m == BacktickSearch(text, 1) IN IF m.found THEN Strip(m.group) ELSE <<>>

\* the candidates of the heuristic rule, in the order of the lines
LineCandidates(text) ==
    LET lines == SplitLines(text)
    IN  [k \in 1..Len(lines) |->
            IF Strip(lines[k]) = <<>> \/ StartsWith(Strip(lines[k]), Fence) THEN <<>>
            ELSE _clean_backticks(Strip(lines[k]))]

FirstAcceptedLine(text) ==
    LET c == LineCandidates(text)
    IN  IF \E k \in 1..Len(c) : Accepted(c[k])
        THEN c[CHOOSE k \in 1..Len(c) : Accepted(c[k]) /\ \A l \in 1..(k - 1) : ~Accepted(c[l])]
        ELSE <<>>

NoCommandLikeContent(text) ==
    /\ ~Accepted(LabelCandidate(text))
    /\ ~Accepted(FenceCandidate(text))
    /\ ~Accepted(SpanCandidate(text))
    /\ \A k \in 1..Len(LineCandidates(text)) : ~Accepted(LineCandidates(text)[k])

\* C26: the extraction of the empty text is the empty text, and so is the
\* extraction of a text none of whose structural candidates, of any rule,
\* passes the predicate; the call returns, it never raises.
C26_NoCommandLikeGivesEmpty ==
    ext.done =>
        /\ ext.response_text = <<>> => ext.solution = <<>>
        /\ NoCommandLikeContent(ext.response_text) => ext.solution = <<>>

\* a text with a label, whose trailing text is rejected, on a line that opens
\* with a prose lead-in: nothing was extracted
C26_Witness ==
    /\ ext.done
    /\ SolutionSearch(ext.response_text, 1).found
    /\ LabelCandidate(ext.response_text) # <<>>
    /\ NoCommandLikeContent(ext.response_text)
    /\ ext.solution = <<>>

\* the trimmed text behind the label at k, up to the end of its line
TrailingAt(text, k) == Strip(RestOfLine(text, k + Len(SolutionLabel)))

\* a label at k whose trailing text is no fence marker and passes the predicate
LabelQualifies(text, k) ==
    /\ StartsWithAt(text, k, SolutionLabel)
    /\ ~IsFenceMarker(TrailingAt(text, k))
    /\ Accepted(TrailingAt(text, k))

\* C27: when a label is followed on its line by trailing text that is no
\* fence marker and passes the predicate, the extraction is that trailing
\* text, trimmed and without one pair of surrounding backticks, whatever
\* else the text holds.
C27_LabelWins ==
    (ext.done /\ \E k \in 1..Len(ext.response_text) : LabelQualifies(ext.response_text, k))
        => LET k == CHOOSE k \in 1..Len(ext.response_text) :
                        /\ LabelQualifies(ext.response_text, k)
                        /\ \A l \in 1..(k - 1) : ~LabelQualifies(ext.response_text, l)
           IN  ext.solution = _clean_backticks(TrailingAt(ext.response_text, k))

\* C28: when the text behind the label is exactly a fence marker (three
\* backticks, optionally a tag), rule 1 has no candidate: the extraction is
\* never the marker, and it is the trimmed interior of the fenced block when
\* that passes the predicate.
C28_MarkerFallsThrough ==
    LET m == SolutionSearch(ext.response_text, 1)
    IN  (ext.done /\ m.found /\ IsFenceMarker(Strip(m.group)))
            => /\ ext.solution # Strip(m.group)
               /\ Accepted(FenceCandidate(ext.response_text))
                    => ext.solution = FenceCandidate(ext.response_text)

\* C29: the rules are tried in the order label, fenced block, first inline
\* span, heuristic line; the extraction is the candidate of the first rule
\* whose structural match passes the predicate, a rejected match is never
\* returned, and without an accepted candidate the extraction is empty.
C29_FirstAcceptedRuleWins ==
    ext.done =>
        /\ ext.solution =
              ( IF Accepted(LabelCandidate(ext.response_text))
                THEN LabelCandidate(ext.response_text)
                ELSE IF Accepted(FenceCandidate(ext.response_text))
                THEN FenceCandidate(ext.response_text)
                ELSE IF Accepted(SpanCandidate(ext.response_text))
                THEN SpanCandidate(ext.response_text)
                ELSE FirstAcceptedLine(ext.response_text) )
        /\ ext.solution # <<>> => _looks_like_vim_command(ext.solution)

\* the interior of the fenced block was rejected and the inline span, found
\* by the next rule, was returned
C29_Witness ==
    /\ ext.done
    /\ ~SolutionSearch(ext.response_text, 1).found
    /\ FenceCandidate(ext.response_text) # <<>>
    /\ ~Accepted(FenceCandidate(ext.response_text))
    /\ Accepted(SpanCandidate(ext.response_text))
    /\ FirstAcceptedLine(ext.response_text) # SpanCandidate(ext.response_text)
    /\ ext.solution = SpanCandidate(ext.response_text)


\* the step is a close() call on session s that is not the first one
SecondClose(s) ==
    /\ sess[s] # NoSession
    /\ sess[s].closes >= 1
    /\ sess'[s].closes = sess[s].closes + 1

\* C21: close is idempotent: a second close() on a session, or on the agent
\* that wraps it, raises nothing, leaves the session closed (the engine
\* terminated once, the agent inactive), and changes no other session.
C21_CloseIdempotent ==
    [][ \A s \in Sessions :
          SecondClose(s) =>
              /\ ~sess'[s].raised
              /\ sess'[s].editor.proc = "terminated"
              /\ sess'[s].signals = 1
              /\ sess[s].wrapped => ~sess'[s].active
              /\ \A t \in Sessions \ {s} : sess'[t] = sess[t] ]_vars

\* behind a close() that returned, a second close() changes nothing at all
C21_SecondCloseAfterReturn ==
    [][ \A s \in Sessions :
          (SecondClose(s) /\ ~sess[s].raised) =>
              /\ sess'[s] = [sess[s] EXCEPT !.closes = @ + 1]
              /\ sess'[s].editor.proc = "terminated"
              /\ sess'[s].signals = 1
              /\ sess[s].wrapped => ~sess'[s].active
              /\ \A t \in Sessions \ {s} : sess'[t] = sess[t] ]_vars


(***************************************************************************)
(* Properties of the summary, the session steps of an evaluation, the      *)
(* sandbox directories and the result dicts.                               *)
(***************************************************************************)
\* the positions of rs whose result is successful / has score 1
SuccessfulAt(rs) == { k \in 1..Len(rs) : rs[k].success }
CorrectAt(rs) == { k \in 1..Len(rs) : rs[k].eval_score = 1 }

\* the keystroke counts of the results at the positions in at, added up
RECURSIVE KeystrokesAt(_, _)
KeystrokesAt(rs, at) ==
    IF at = {} THEN 0
    ELSE LET k == CHOOSE x \in at : TRUE
         IN  rs[k].keystroke_count + KeystrokesAt(rs, at \ {k})

\* the figures of the summary that do not depend on the number of problems
\* shown: the three counts, both keystroke sums and their order
SummaryCounts ==
    report # NoReport =>
        /\ report.successful = Cardinality(SuccessfulAt(results))
        /\ report.failed = Len(results) - report.successful
        /\ report.correct = Cardinality(CorrectAt(results))
        /\ report.total_keystrokes = KeystrokesAt(results, SuccessfulAt(results))
        /\ report.correct_keystrokes = KeystrokesAt(results, CorrectAt(results))
        /\ report.correct <= report.successful
        /\ report.successful <= Len(results)
        /\ report.correct_keystrokes <= report.total_keystrokes

\* C31: for a result list of length n the summary reports attempted = n, the
\* counts of successful, failed and correct results, both keystroke sums, and
\* a success rate of correct/n, with correct <= successful <= attempted and
\* correct keystrokes <= total keystrokes.
C31_SummaryOverResults ==
    report # NoReport =>
        /\ SummaryCounts
        /\ report.out_of = Len(results)
        /\ report.success_rate[1] * Len(results)
              = report.correct * 100 * report.success_rate[2]
        /\ report.successful <= report.out_of

\* the positions of the 'Solution:' labels of the text
LabelsAt(text) == { k \in 1..Len(text) : StartsWithAt(text, k, SolutionLabel) }

\* the text has a label, and behind every label there is nothing but white
\* space up to the end of its line
LabelLinesBlank(text) ==
    /\ LabelsAt(text) # {}
    /\ \A k \in LabelsAt(text) : AllWhitespace(RestOfLine(text, k + Len(SolutionLabel)))

\* C32: rule 1 only considers text on the line of the 'Solution:' label: when
\* nothing but white space follows the label on its line, rule 1 yields no
\* candidate, so text of a later line is never returned as the inline solution.
C32_LabelLineOnly ==
    (ext.done /\ LabelLinesBlank(ext.response_text)) =>
        SolutionRule(ext.response_text) = <<>>

\* the place of a session call in the order configure, inject candidate,
\* inject escape, read, compare, close (after open)
CallOrder ==
    << "open", "configure", "inject", "escape", "read", "compare", "close" >>

CallRank(op) == CHOOSE k \in 1..Len(CallOrder) : CallOrder[k] = op

\* the log holds a call of op / a call of op that raised
HasCall(log, op) == \E k \in 1..Len(log) : log[k].op = op
HasRaised(log, op) == \E k \in 1..Len(log) : log[k].op = op /\ log[k].outcome = "raises"

\* C33: within one evaluation the session calls happen in the order
\* configure, inject candidate, inject escape, read, compare, close; an error
\* raised by either injection is swallowed: the escape keystroke is injected
\* right after a failed candidate injection, and the content is read and
\* compared after either injection failed.
C33_InjectionErrorsSwallowed ==
    \A i \in Prob :
        LET log == oplog[i].ops
        IN  /\ \A k \in 1..(Len(log) - 1) :
                  /\ CallRank(log[k].op) < CallRank(log[k + 1].op)
                  /\ log[k].op = "inject" => log[k + 1].op = "escape"
                  /\ log[k].op = "escape" => log[k + 1].op = "read"
                  /\ (log[k].op = "read" /\ log[k].outcome = "ok") => log[k + 1].op = "compare"
            /\ (wpc[i] = "finished" /\ HasCall(log, "inject")) =>
                  /\ HasCall(log, "escape")
                  /\ HasCall(log, "read")
                  /\ HasCall(log, "close")
                  /\ HasCall(log, "compare") \/ HasRaised(log, "read")

\* both injections of an evaluation raised, the content was read and compared
\* all the same, and the evaluation returned the score 1
C33_Witness ==
    \E i \in Prob :
        /\ HasRaised(oplog[i].ops, "inject")
        /\ HasRaised(oplog[i].ops, "escape")
        /\ HasCall(oplog[i].ops, "compare")
        /\ wpc[i] = "finished"
        /\ wres[i] = Val(1)
        /\ score[i] = Val(1)

\* the evaluations whose session is open: constructed and not yet closed
OpenSessions ==
    { i \in Prob : opened[i] /\ wpc[i] \in {"config", "inject", "esc", "read", "close", "blocked"} }

\* close() of the session of evaluation i has returned
ClosedSession(i) == opened[i] /\ wpc[i] = "finished" /\ proc[i] = "terminated"

\* C34: each session owns a private sandbox directory created at open and
\* removed at close: after close() returns the directory of that session no
\* longer exists, and the number of existing sandbox directories equals the
\* number of open sessions.
C34_SandboxRemovedAtClose ==
    /\ \A i \in Prob : ClosedSession(i) => tmpdir[i] \notin ExistingDirs
    /\ Cardinality(ExistingDirs) = Cardinality(OpenSessions)

\* RawNvimEditor(...) of evaluation i raised and the evaluation has returned
FailedOpen(i) == wpc[i] = "finished" /\ ~opened[i] /\ tmpdir[i] # 0

\* C35: a failed open leaks nothing: when open has spawned the engine process
\* and then fails, the process is terminated before the error reaches the
\* caller, so an evaluation whose session start failed leaves no engine
\* process running.
C35_FailedOpenLeaksNothing ==
    \A i \in Prob : FailedOpen(i) => proc[i] # "running"

\* s is an initial part of t
IsPrefix(s, t) == Len(s) <= Len(t) /\ SubSeq(t, 1, Len(s)) = s

\* the operations of the agent that execute commands
ExecuteOps == {"execute_command", "execute_commands"}

\* C37: both histories of an agent are append-only: across every operation
\* on the agent each history before it is a prefix of the history after it;
\* only execute (directly or through execute_batch) appends, every query and
\* close leave both histories unchanged.
C37_HistoriesAppendOnly ==
    [][ (agent # NoAgent /\ agent' # NoAgent /\ ~CallStep("VimAgent")) =>
            /\ IsPrefix(agent.command_history, agent'.command_history)
            /\ IsPrefix(agent.state_history, agent'.state_history)
            /\ ret'.op \notin ExecuteOps =>
                  /\ agent'.command_history = agent.command_history
                  /\ agent'.state_history = agent.state_history ]_vars

\* an agent that executed two commands, the second changing the state, and
\* was then closed, with both histories still whole
C37_Witness ==
    /\ agent # NoAgent
    /\ Len(agent.command_history) = 2
    /\ Len(agent.state_history) = 3
    /\ agent.state_history[3] # agent.state_history[2]
    /\ ret.op = "close"
    /\ ~agent.active

\* C38: in the comparison the exact match implies the content match: line
\* sequences that are equal after stripping trailing empty lines are also
\* equal after discarding blank lines, so the score equals the outcome of the
\* content match alone.
C38_ExactImpliesContent ==
    cmp.done =>
        /\ exact_match(cmp.result_lines, cmp.expected_lines)
              => content_match(cmp.result_lines, cmp.expected_lines)
        /\ cmp.score = 1 <=> content_match(cmp.result_lines, cmp.expected_lines)

\* an exact match of sequences that differ in their trailing empty lines and
\* hold a blank line the stripping of trailing empty lines keeps was scored 1
C38_Witness ==
    /\ cmp.done
    /\ cmp.result_lines # cmp.expected_lines
    /\ exact_match(cmp.result_lines, cmp.expected_lines)
    /\ CleanLines(cmp.result_lines) # PopTrailingEmpty(cmp.result_lines)
    /\ cmp.score = 1

\* text neither starts nor ends with a white space character
Trimmed(text) ==
    text # <<>> => (text[1] \notin Whitespace /\ text[Len(text)] \notin Whitespace)

\* C39: for every input text the result of the extractor is the empty string
\* or a string that passes the command-likelihood predicate and has no
\* leading or trailing white space, whichever rule produced it.
C39_ResultEmptyOrAcceptedAndTrimmed ==
    ext.done =>
        \/ ext.solution = <<>>
        \/ /\ _looks_like_vim_command(ext.solution)
           /\ Trimmed(ext.solution)

\* the line rule returned a line of the text without the white space around it
C39_Witness ==
    /\ ext.done
    /\ ext.solution # <<>>
    /\ SolutionRule(ext.response_text) = <<>>
    /\ CodeBlockRule(ext.response_text) = <<>>
    /\ BacktickRule(ext.response_text) = <<>>
    /\ \E k \in 1..Len(SplitLines(ext.response_text)) :
          /\ SplitLines(ext.response_text)[k] # ext.solution
          /\ Strip(SplitLines(ext.response_text)[k]) = ext.solution

\* the result dict r is consistent in itself
ConsistentResult(r) ==
    /\ ~r.success =>
          /\ r.eval_score = 0
          /\ r.keystroke_count = 0
          /\ "error" \in DOMAIN r
    /\ r.eval_score = 1 =>
          /\ r.success
          /\ r.keystroke_sequence # <<>>
    /\ r.success =>
          /\ r.keystroke_sequence = <<>> => (r.keystroke_count = 0 /\ r.eval_score = 0)
          /\ r.keystroke_count = KeystrokesOf[r.keystroke_sequence]

\* C40: every per-problem result is consistent after any run: success false
\* implies score 0, keystroke count 0 and an error detail; score 1 implies
\* success true and a non-empty candidate; an empty candidate implies
\* keystroke count 0 and score 0; and the keystroke count of a successful
\* result is count_keystrokes of its candidate, whatever the score.
C40_ResultsConsistent ==
    /\ \A i \in Prob : result[i] # NoResult => ConsistentResult(result[i])
    /\ \A k \in 1..Len(results) : ConsistentResult(results[k])

\* a returned list with a hard failure, and a successful result that scored 0
\* and still reports the keystrokes of its candidate
C40_Witness ==
    /\ phase = "returned"
    /\ \E k \in 1..Len(results) : ~results[k].success
    /\ \E k \in 1..Len(results) :
          /\ results[k].success
          /\ results[k].eval_score = 0
          /\ results[k].keystroke_count > 0
====
